---- MODULE Spec2Model ----
(***************************************************************************)
(* A model of pud: the server router (puds/src/server), the server-side    *)
(* worker and manager sessions (puds/src/worker, puds/src/manager), the    *)
(* worker client (pudw/src/actor) and the heartbeat all peers share.       *)
(*                                                                         *)
(* The specifications share the variables; each moves its own part:        *)
(*   Spec       the router with its sessions and the worker clients        *)
(*   SpecReq    the requests of managers and workers through the router    *)
(*   SpecRegistry the router given Disconnects for any id                  *)
(*   SpecReload a reload asked for by a connected manager                  *)
(*   SpecArchive the job frames a worker session stores                    *)
(*   SpecSched  the schedules of the worker client against a clock         *)
(*   SpecJob    one executor thread of the worker client running commands  *)
(*   SpecThread one executor thread going through its command list         *)
(*   SpecSession the job of SpecJob, its frames handled by its session     *)
(*   SpecHb     the heartbeat of one peer against a clock in whole seconds *)
(*   SpecQueue  the output queue of the worker client and its supervisor   *)
(*   SpecFrames the stream handler of one peer, frame by frame             *)
(*   SpecCli    one invocation of the command line client                  *)
(*   SpecCal    one calendar parsed and asked about moments                *)
(*   SpecField  one field of a calendar parsed                             *)
(***************************************************************************)
EXTENDS Integers, Sequences, FiniteSets, TLC

(***************************************************************************)
(* Bounds of the model.                                                    *)
(***************************************************************************)
\* connections, of workers and of managers, opened in one behaviour
MaxConnects == 2
\* the largest retry_count a command line client is configured with
MaxRetry == 3
\* the days after 1970-01-01 a calendar is asked about
MaxDay == 400
\* the states the random number generator is taken in, from 0
MaxDraw == 59
\* the names in the command list of one executor thread, at most
MaxCmds == 3
\* messages waiting in the Server's mailbox; a sender waits for room
MaxMailbox == 1
\* seconds of the heartbeat clock
MaxTime == 20
\* lines the child process of one job writes, to stdout and stderr together
MaxLines == 2
\* Reload requests in one behaviour, where manager clients repeat them
MaxReloads == 2
\* documents in the result vector of one Query
MaxDocs == 2
\* job frames one worker session handles
MaxFrames == 5
\* seconds of the worker client's clock
MaxClock == 4
\* seconds of the clock the outbound queue's supervisor is followed for
MaxIdle == 36
\* frames one peer's stream handler is given
MaxInbound == 5
\* seconds of the clock of the peer whose frames are followed
MaxFrameTime == 1

(***************************************************************************)
(* Program constants.                                                      *)
(***************************************************************************)
\* puds/src/utils.rs: a payload longer than this many bytes is chunked
CHUNK_SIZE == 65536
\* seconds between two heartbeat checks, the same in all four peers
HEARTBEAT_INTERVAL == 5
\* seconds without a refresh of hb after which a check times out
CLIENT_TIMEOUT == 10
\* seconds between two runs of the outbound queue's supervisor
QUEUE_MONITOR_INTERVAL == 2
\* seconds the queue has to be drained for before its drainer is cancelled
QUEUE_IDLE_TIMEOUT == 30

VARIABLES
    \* ---- Server (puds/src/server/mod.rs) ----
    workers,        \* Server.workers: id -> [name, ip, addr]
    managers,       \* Server.managers: id -> [addr]
    worker_count,   \* Server.worker_count
    manager_count,  \* Server.manager_count
    config,         \* Server.config
    mailbox,        \* the Server actor's mailbox, FIFO
    nextId,         \* the ids Uuid::new_v4 has handed out so far, plus one
    last,           \* what the Server handled in the step just taken, and its sends
    \* ---- sessions and clients, one per connection ----
    sess,           \* the server-side Session of each connection
    outbox,         \* ServerToWorkerClient messages sent to a worker session
    wc,             \* the worker client of each worker connection
    loads,          \* the file contents last read with success, and how many rereads succeeded
    initReply,      \* the latest Initialize reply sent to each worker session
    \* ---- the heartbeat of one peer ----
    peer,           \* which of the four actors the peer is
    now,            \* Instant::now(), in seconds since the peer started
    hb,             \* the peer's hb field
    ticked,         \* when the interval of hb() last ran its closure
    actor,          \* the peer's actor: "running", "stopping" after ctx.stop(), "stopped"
    timedOut,       \* the closure took its timeout branch
    disconnects,    \* Disconnect messages the peer sent to the Server
    lastInbound,    \* when the latest inbound frame arrived
    silent,         \* CLIENT_TIMEOUT passed between two successive inbound frames
    stale,          \* the kinds of the frames that arrived after hb was set
    \* ---- one job of the worker client (pudw run_cmd) ----
    exec,           \* the executor thread: "ready", "waiting" at the top of its loop,
                    \* "in_wait" inside cvar.wait_timeout, "done"
    child,          \* the child process: "none", "running", "exited", "signaled", "killed"
    pipe,           \* the lines in the child's stdout and stderr pipes, unread
    reader,         \* the two reader threads: "none", "reading", "done"
    chan,           \* the channels tx_stdout, tx_stderr, tx_status
    inbox,          \* the Worker actor's mailbox of WorkerClientToWorkerSession
    stdout_queue,   \* Worker.stdout_queue, the outbound queue
    running_pair,   \* the flag of Worker.running_pair
    sinceReload,    \* "reloaded" once Reload is handled while the child runs, "waited"
                    \* once the executor is back from a wait after that; else "none"
    \* ---- one executor thread and its command list (pudw launch_monotonic) ----
    cmds_thread,    \* the names the thread was given
    cmd_at,         \* where `for cmd_name in &cmds_thread` is
    thread,         \* "for" between two calls of run_cmd, "waiting" at the top of
                    \* run_cmd's loop, "in_wait" inside cvar.wait_timeout
    children,       \* the calls of run_cmd so far: the name, and the child spawned
    reloaded,       \* how many children were spawned when Reload was first handled
    \* ---- the jobs of one worker session (puds/src/worker/session.rs) ----
    jobs,           \* Session.jobs: job id -> Job
    archive,        \* the documents handed to Document::create, in order
    seen,           \* the job frames the session has handled, in order
    \* ---- the scheduler of the worker client (pudw/src/actor/mod.rs) ----
    clk,            \* the time, in seconds since the Worker started
    installed,      \* Worker.schedules
    rt,             \* Worker.rt: Realtime -> the command list
    fut_handles,    \* Worker.fut_handles
    timers,         \* the futures run_later and run_interval have spawned, by handle
    started,        \* the executor threads started: when, by which timer, with which list
    asked,          \* Initialize requests written and not answered, Reload frames handled
    \* ---- the outbound queue of the worker client (pudw/src/actor/mod.rs) ----
    instant,        \* Instant::now(), in seconds since the Worker started
    queue_running,  \* Worker.queue_running
    stdout_handle,  \* Worker.stdout_handle: "None" or "Some"
    drainer,        \* the future of start_stdout_drain is spawned and not cancelled
    stdout_last,    \* Worker.stdout_last
    monitor_due,    \* when the interval of queue_monitor runs its closure next
    wire,           \* the frames addr.write has been given, in order
    pushed,         \* the messages the Worker's handler was given, in order
    head_since,     \* since when the queue has not been empty, 0 when it is
    tick,           \* what the supervisor found and did when it last ran
    \* ---- the stream handler of one peer, frame by frame ----
    cont_bytes,     \* the peer's cont_bytes
    handled,        \* the frame handled last, and what its handler did
    inflight,       \* the chunks of a continuation sequence still to arrive
    \* ---- one invocation of the command line client ----
    retry_count,    \* run's retry_count
    error_count,    \* run's error_count
    command_to_run, \* the CommandLine's command_to_run
    cmdline,        \* where run is: "idle", "running", "hung", "stopped", "exited"
    to_server,      \* what the CommandLine wrote on this connection, unanswered
    to_cli,         \* what the server wrote on this connection, unread
    cli,            \* what the invocation has done so far
    \* ---- one calendar, parsed and asked about moments ----
    on_calendar,    \* the calendar string
    matcher,        \* what parse_calendar made of it
    moment,         \* the time should_run was asked about, -1 before
    matched,        \* what should_run answered
    \* ---- one field of a calendar, parsed ----
    the_field,      \* which field the text is
    the_items,      \* the items the text is written with
    parsed_field    \* what the parser made of the text

routerVars == <<workers, managers, worker_count, manager_count, config, mailbox,
                nextId, last, sess, outbox, wc, loads, initReply>>

hbVars == <<peer, now, hb, ticked, actor, timedOut, disconnects, lastInbound,
            silent, stale>>

jobVars == <<exec, child, pipe, reader, chan, inbox, stdout_queue, running_pair,
             sinceReload>>

threadVars == <<cmds_thread, cmd_at, thread, children, reloaded>>

archiveVars == <<jobs, archive, seen>>

schedVars == <<clk, installed, rt, fut_handles, timers, started, asked>>

queueVars == <<instant, queue_running, stdout_handle, drainer, stdout_last,
               monitor_due, wire, pushed, head_since, tick>>

frameVars == <<cont_bytes, handled, inflight>>

cliVars == <<retry_count, error_count, command_to_run, cmdline, to_server, to_cli, cli>>

calVars == <<on_calendar, matcher, moment, matched, the_field, the_items, parsed_field>>

vars == <<threadVars, routerVars, hbVars, jobVars, archiveVars, schedVars, queueVars, frameVars, cliVars, calVars>>

\* what a step of one part of the program leaves alone
RouterFrame == UNCHANGED <<threadVars, hbVars, jobVars, archiveVars, schedVars, queueVars, frameVars, cliVars, calVars>>
\* a step that sends no Initialize reply and rereads no file
KeepReplies == UNCHANGED <<loads, initReply>>
HbFrame == UNCHANGED <<threadVars, routerVars, jobVars, archiveVars, schedVars, queueVars, frameVars, cliVars, calVars>>
JobFrame == UNCHANGED <<threadVars, routerVars, hbVars, archiveVars, schedVars, queueVars, frameVars, cliVars, calVars>>
SchedFrame == UNCHANGED <<threadVars, routerVars, hbVars, jobVars, archiveVars, queueVars, frameVars, cliVars, calVars>>
ThreadFrame ==
    UNCHANGED <<routerVars, hbVars, archiveVars, schedVars, queueVars, frameVars, cliVars, calVars,
                exec, child, pipe, reader, inbox, stdout_queue, sinceReload>>
QueueFrame ==
    UNCHANGED <<threadVars, routerVars, hbVars, archiveVars, schedVars, frameVars, cliVars, calVars,
                exec, child, pipe, reader,
                chan, inbox, running_pair, sinceReload>>

(***************************************************************************)
(* Connections.  Each connection is opened at most once; w1 is the first   *)
(* worker connection opened and w2 the second, and so m1 and m2.           *)
(***************************************************************************)
WorkerConns == {"w1", "w2"}
ManagerConns == {"m1", "m2"}
Conns == WorkerConns \cup ManagerConns

\* the ?name= query parameter a connection may carry: worker names may collide
NamesOf(c) ==
    CASE c = "w1" -> {"alpha"}
      [] c = "w2" -> {"alpha", "beta"}
      [] OTHER -> {"cli"}
\* realip_remote_addr of a connection
IpOf(c) == "ip-" \o c
\* the connection of the same kind opened before c, if any
Before(c) ==
    CASE c = "w2" -> {"w1"}
      [] c = "m2" -> {"m1"}
      [] OTHER -> {}

(***************************************************************************)
(* Configurations (puds/src/model/config.rs).  Only the keys the router    *)
(* reads: default, overrides, schedules.                                   *)
(***************************************************************************)
\* a command line too long for one frame once serialized
LongCmd == "long script"

\* the length in bytes of the strings the model uses
StrBytes(s) ==
    CASE s = LongCmd -> 70000
      [] s = "ls /" -> 4
      [] s = "ls /tmp" -> 7
      [] s = "ls -la" -> 6
      [] s = "df -h" -> 5
      [] OTHER -> 2

Command(c) == [cmd |-> c]

Monotonic(b, a, cmds) ==
    [type |-> "Monotonic", on_boot_sec |-> b, on_unit_active_sec |-> a, cmds |-> cmds]
Realtime(cal, cmds) ==
    [type |-> "Realtime", on_calendar |-> cal, persistent |-> FALSE, cmds |-> cmds]

\* a finite map given by its pairs
MapOf(pairs) == [k \in {p[1] : p \in pairs} |-> (CHOOSE p \in pairs : p[1] = k)[2]]
EmptyMap == MapOf({})

ConfigV1 ==
    [default   |-> MapOf({<<"ls", Command("ls /")>>, <<"df", Command("df -h")>>}),
     overrides |-> MapOf({<<"alpha", MapOf({<<"ls", Command("ls -la")>>,
                                            <<"up", Command("up")>>})>>}),
     schedules |-> MapOf({<<"alpha", [schedules |-> <<Monotonic(1, 2, <<"ls">>)>>]>>})]

ConfigV2 ==
    [default   |-> MapOf({<<"ls", Command("ls /tmp")>>}),
     overrides |-> EmptyMap,
     schedules |-> MapOf({<<"beta", [schedules |-> <<Realtime("minutely", <<"ls">>)>>]>>})]

ConfigBig ==
    [default   |-> MapOf({<<"ls", Command(LongCmd)>>}),
     overrides |-> EmptyMap,
     schedules |-> EmptyMap]

Configs == {ConfigV1, ConfigV2, ConfigBig}

\* what may be on disk: a configuration that loads, or a file that fails to
\* open, to be read, to parse as TOML or to convert
DiskErrors == {"FileOpen", "Read", "TomlParse", "Conversion"}
DiskStates == [ok : {TRUE}, config : Configs] \cup [ok : {FALSE}, err : DiskErrors]

\* pudlib reload::<TomlConfig, Config>(path, quiet, verbose): the result of
\* reading the file as it is when the Reload is handled
reload(file) == file

(***************************************************************************)
(* Serialized payloads.  A byte string is a sequence of segments, each the *)
(* bytes lo .. hi-1 of the encoding of one message; adjacent segments of   *)
(* one encoding are kept merged.                                           *)
(***************************************************************************)
RECURSIVE SumOver(_, _)
SumOver(S, f) ==
    IF S = {} THEN 0
    ELSE LET x == CHOOSE y \in S : TRUE IN f[x] + SumOver(S \ {x}, f)

RECURSIVE SumSeq(_)
SumSeq(q) == IF q = <<>> THEN 0 ELSE Head(q) + SumSeq(Tail(q))

ScheduleBytes(sch) ==
    17 + SumSeq([i \in 1..Len(sch.cmds) |-> 1 + StrBytes(sch.cmds[i])])
       + (IF sch.type = "Realtime" THEN 2 + StrBytes(sch.on_calendar) ELSE 0)

\* the length of encode_to_vec(Compat(msg), standard())
SerializedLen(msg) ==
    CASE msg.type = "Initialize" ->
            1 + 1 + SumOver(DOMAIN msg.commands,
                            [k \in DOMAIN msg.commands |->
                                2 + StrBytes(k) + StrBytes(msg.commands[k].cmd)])
              + 1 + SumSeq([i \in 1..Len(msg.schedules) |-> ScheduleBytes(msg.schedules[i])])
      [] msg.type = "Reload" -> 1
      [] msg.type = "Schedules" -> 17
      [] OTHER -> 1

encode_to_vec(msg) == << [msg |-> msg, lo |-> 0, hi |-> SerializedLen(msg)] >>

\* bincode deserialize: the whole encoding of one message, and nothing else
deserialize(bytes) ==
    IF Len(bytes) = 1 /\ bytes[1].lo = 0 /\ bytes[1].hi = SerializedLen(bytes[1].msg)
    THEN [ok |-> TRUE, msg |-> bytes[1].msg]
    ELSE [ok |-> FALSE]

BytesLen(bytes) == SumSeq([i \in 1..Len(bytes) |-> bytes[i].hi - bytes[i].lo])

\* BytesMut::extend_from_slice
extend_from_slice(buf, bytes) ==
    IF buf # <<>> /\ bytes # <<>>
       /\ buf[Len(buf)].msg = bytes[1].msg /\ buf[Len(buf)].hi = bytes[1].lo
    THEN SubSeq(buf, 1, Len(buf) - 1)
            \o << [msg |-> bytes[1].msg, lo |-> buf[Len(buf)].lo, hi |-> bytes[1].hi] >>
            \o Tail(bytes)
    ELSE buf \o bytes

\* slice::chunks(n) of one encoding
chunks(bytes, n) ==
    LET b == bytes[1]
        len == b.hi - b.lo
        count == (len + n - 1) \div n
    IN [i \in 1..count |->
            << [msg |-> b.msg, lo |-> b.lo + (i - 1) * n,
                hi |-> IF b.lo + i * n < b.hi THEN b.lo + i * n ELSE b.hi] >>]

Binary(bytes) == [frame |-> "Binary", bytes |-> bytes]
Continuation(item, bytes) == [frame |-> "Continuation", item |-> item, bytes |-> bytes]

\* puds/src/utils.rs handle_server_to_client, after the encoding: the frames
\* written for the payload wm_bytes
write_frames(wm_bytes) ==
    IF BytesLen(wm_bytes) > CHUNK_SIZE
    THEN LET cs == chunks(wm_bytes, CHUNK_SIZE)
             upper == Len(cs)
         IN [idx \in 1..upper |->
                IF idx - 1 = 0 THEN Continuation("FirstBinary", cs[idx])
                ELSE IF idx - 1 = upper - 1 THEN Continuation("Last", cs[idx])
                ELSE Continuation("Continue", cs[idx])]
    ELSE << Binary(wm_bytes) >>

\* puds/src/utils.rs handle_server_to_client: the frames written for msg
handle_server_to_client(msg) == write_frames(encode_to_vec(msg))

(***************************************************************************)
(* Server (puds/src/server/mod.rs).  A send is a do_send to the session    *)
(* stored in a registry entry; the functions below return the sends they   *)
(* make, in order.                                                         *)
(***************************************************************************)
None == [some |-> FALSE, ids |-> {}]
Some(ids) == [some |-> TRUE, ids |-> ids]

\* format!("<text> {n}") turned into ServerTo*Client::Status
Status(text, n) == [type |-> "Status", text |-> text, arg |-> n]

Send(kind, id, message) == [kind |-> kind, id |-> id, msg |-> message]

\* the keys of a registry in the order the iteration visits them
RECURSIVE KeysOf(_)
KeysOf(S) ==
    IF S = {} THEN <<>>
    ELSE LET m == CHOOSE x \in S : \A y \in S : x <= y IN <<m>> \o KeysOf(S \ {m})

RECURSIVE Concat(_)
Concat(qs) == IF qs = <<>> THEN <<>> ELSE Head(qs) \o Concat(Tail(qs))

direct_worker_message(ws, message, id) ==
    IF id \in DOMAIN ws THEN << Send("worker", id, message) >> ELSE <<>>

\* direct_manager_message without the lookup in the registry
direct_manager_message_unchecked(ms, message, id) == << Send("manager", id, message) >>

direct_manager_message(ms, message, id) ==
    IF id \in DOMAIN ms THEN << Send("manager", id, message) >> ELSE <<>>

\* broadcast_workers_message without the test of the skip set
broadcast_workers_message_all(ws, message, skip_ids) ==
    LET keys == KeysOf(DOMAIN ws) IN
    Concat([i \in 1..Len(keys) |-> direct_worker_message(ws, message, keys[i])])

broadcast_workers_message(ws, message, skip_ids) ==
    LET keys == KeysOf(DOMAIN ws) IN
    Concat([i \in 1..Len(keys) |->
        IF skip_ids.some
        THEN IF keys[i] \notin skip_ids.ids
             THEN direct_worker_message(ws, message, keys[i])
             ELSE <<>>
        ELSE direct_worker_message(ws, message, keys[i])])

broadcast_managers_message(ms, message, skip_ids) ==
    LET keys == KeysOf(DOMAIN ms) IN
    Concat([i \in 1..Len(keys) |->
        IF skip_ids.some
        THEN IF keys[i] \notin skip_ids.ids
             THEN direct_manager_message(ms, message, keys[i])
             ELSE <<>>
        ELSE direct_manager_message(ms, message, keys[i])])

broadcast(ws, ms, message, skip_ids) ==
    broadcast_workers_message(ws, message, skip_ids)
        \o broadcast_managers_message(ms, message, skip_ids)

\* one call of a sending function, as recorded in last.calls
Call(fn, message, skip_ids, sends) ==
    [fn |-> fn, message |-> message, skip_ids |-> skip_ids, sends |-> sends]

SendsOf(calls) == Concat([i \in 1..Len(calls) |-> calls[i].sends])

\* HashMap::insert and HashMap::remove
Insert(m, k, v) == [x \in DOMAIN m \cup {k} |-> IF x = k THEN v ELSE m[x]]
Remove(m, k) == [x \in DOMAIN m \ {k} |-> m[x]]

\* HashMap::remove(&id).is_some() taken to hold for every id
remove_is_some_always(m, k) == TRUE

\* HashMap::remove(&id).is_some()
remove_is_some(m, k) == k \in DOMAIN m

\* fetch_add taken to return the value after the addition
fetch_add_new(count, n) == count + n

\* AtomicUsize::fetch_add and fetch_sub return the value before the update
fetch_add(count, n) == count
fetch_sub(count, n) == count

\* a session takes messages while its actor runs
Alive(c) == sess[c].state \in {"connecting", "running"}

\* the sends reach the mailboxes of the sessions addressed; a worker
\* session's mailbox is outbox.  Status messages are only logged by the
\* clients (pudw/src/actor/mod.rs:218), so their delivery is not followed
\* further than the send.
RECURSIVE Deliver(_, _, _)
Deliver(ob, ws, sends) ==
    IF sends = <<>> THEN ob
    ELSE LET s == Head(sends)
             next ==
                IF s.kind = "worker" /\ s.msg.type # "Status" /\ Alive(ws[s.id].addr)
                THEN [ob EXCEPT ![ws[s.id].addr] = Append(@, s.msg)]
                ELSE ob
         IN Deliver(next, ws, Tail(sends))

\* last after a step that was not the Server's
NoLast == [msg |-> [type |-> "none"], calls |-> <<>>]

Handled(calls) == [msg |-> Head(mailbox), calls |-> calls]

\* impl Handler<WorkerConnect> for Server
HandleWorkerConnect ==
    /\ mailbox # <<>>
    /\ Head(mailbox).type = "WorkerConnect"
    /\ LET connect == Head(mailbox)
           id == nextId
           worker == [name |-> connect.name, ip |-> connect.ip, addr |-> connect.addr]
           ws == Insert(workers, id, worker)
           joined == Status("worker joined", id)
           c1 == Call("broadcast", joined, Some({id}),
                      broadcast(ws, managers, joined, Some({id})))
           count == fetch_add(worker_count, 1)
           total == Status("total workers", count + 1)
           c2 == Call("broadcast", total, None, broadcast(ws, managers, total, None))
       IN /\ workers' = ws
          /\ worker_count' = worker_count + 1
          /\ nextId' = nextId + 1
          /\ last' = Handled(<<c1, c2>>)
          /\ outbox' = Deliver(outbox, ws, SendsOf(<<c1, c2>>))
          \* MessageResult(id): the session's Connect future sets act.id
          /\ sess' = [sess EXCEPT ![connect.addr].id = id,
                                  ![connect.addr].state = "running"]
    /\ mailbox' = Tail(mailbox)
    /\ UNCHANGED <<managers, manager_count, config, wc>>
    /\ KeepReplies
    /\ RouterFrame

\* impl Handler<ManagerConnect> for Server
HandleManagerConnect ==
    /\ mailbox # <<>>
    /\ Head(mailbox).type = "ManagerConnect"
    /\ LET connect == Head(mailbox)
           id == nextId
           manager == [addr |-> connect.addr]
           ms == Insert(managers, id, manager)
           joined == Status("manager joined", id)
           c1 == Call("broadcast", joined, Some({id}),
                      broadcast(workers, ms, joined, Some({id})))
           count == fetch_add(manager_count, 1)
           total == Status("total managers", count + 1)
           c2 == Call("broadcast", total, None, broadcast(workers, ms, total, None))
       IN /\ managers' = ms
          /\ manager_count' = manager_count + 1
          /\ nextId' = nextId + 1
          /\ last' = Handled(<<c1, c2>>)
          /\ outbox' = Deliver(outbox, workers, SendsOf(<<c1, c2>>))
          /\ sess' = [sess EXCEPT ![connect.addr].id = id,
                                  ![connect.addr].state = "running"]
    /\ mailbox' = Tail(mailbox)
    /\ UNCHANGED <<workers, worker_count, config, wc>>
    /\ KeepReplies
    /\ RouterFrame

\* impl Handler<WorkerDisconnect> for Server
HandleWorkerDisconnect ==
    /\ mailbox # <<>>
    /\ Head(mailbox).type = "WorkerDisconnect"
    /\ LET msg == Head(mailbox) IN
       IF remove_is_some(workers, msg.id)
       THEN LET ws == Remove(workers, msg.id)
                gone == Status("worker disconnected", msg.id)
                c1 == Call("broadcast", gone, None, broadcast(ws, managers, gone, None))
                count == fetch_sub(worker_count, 1)
                total == Status("total workers", count - 1)
                c2 == Call("broadcast", total, None, broadcast(ws, managers, total, None))
            IN /\ workers' = ws
               /\ worker_count' = worker_count - 1
               /\ last' = Handled(<<c1, c2>>)
               /\ outbox' = Deliver(outbox, ws, SendsOf(<<c1, c2>>))
       ELSE /\ last' = Handled(<<>>)
            /\ UNCHANGED <<workers, worker_count, outbox>>
    /\ mailbox' = Tail(mailbox)
    /\ UNCHANGED <<managers, manager_count, config, nextId, sess, wc>>
    /\ KeepReplies
    /\ RouterFrame

\* impl Handler<ManagerDisconnect> for Server
HandleManagerDisconnect ==
    /\ mailbox # <<>>
    /\ Head(mailbox).type = "ManagerDisconnect"
    /\ LET msg == Head(mailbox) IN
       IF remove_is_some(managers, msg.id)
       THEN LET ms == Remove(managers, msg.id)
                gone == Status("manager disconnected", msg.id)
                c1 == Call("broadcast", gone, None, broadcast(workers, ms, gone, None))
                count == fetch_sub(manager_count, 1)
                total == Status("total managers", count - 1)
                c2 == Call("broadcast", total, None, broadcast(workers, ms, total, None))
            IN /\ managers' = ms
               /\ manager_count' = manager_count - 1
               /\ last' = Handled(<<c1, c2>>)
               /\ outbox' = Deliver(outbox, workers, SendsOf(<<c1, c2>>))
       ELSE /\ last' = Handled(<<>>)
            /\ UNCHANGED <<managers, manager_count, outbox>>
    /\ mailbox' = Tail(mailbox)
    /\ UNCHANGED <<workers, worker_count, config, nextId, sess, wc>>
    /\ KeepReplies
    /\ RouterFrame

\* or_insert_with alone: a name the table has keeps its command
entry_or_insert(commands, name, cmd) ==
    IF name \in DOMAIN commands THEN commands ELSE Insert(commands, name, cmd)

\* commands.entry(name).or_insert_with(..) = cmd: insert or replace
entry_assign(commands, name, cmd) == Insert(commands, name, cmd)

\* the loop over the overrides of one worker name, key by key
RECURSIVE apply_overrides(_, _, _)
apply_overrides(commands, overrides, keys) ==
    IF keys = {} THEN commands
    ELSE LET name == CHOOSE k \in keys : TRUE
         IN apply_overrides(entry_assign(commands, name, overrides[name]),
                            overrides, keys \ {name})

\* the command table of the Initialize reply
initialize_commands(cfg, name) ==
    IF name \in DOMAIN cfg.overrides
    THEN apply_overrides(cfg.default, cfg.overrides[name], DOMAIN cfg.overrides[name])
    ELSE cfg.default

\* schedules.remove(&name).map(Schedules::take).unwrap_or_default()
initialize_schedule(cfg, name) ==
    IF name \in DOMAIN cfg.schedules THEN cfg.schedules[name].schedules ELSE <<>>

Initialize(commands, schedules) ==
    [type |-> "Initialize", commands |-> commands, schedules |-> schedules]

\* self.config taken to lose the schedules handed out
config_after_initialize_taken(cfg, name) ==
    [cfg EXCEPT !.schedules = [n \in DOMAIN cfg.schedules \ {name} |-> cfg.schedules[n]]]

\* let mut schedules = self.config.schedules().clone(): the removal works on
\* a clone, self.config keeps the schedules of the name
config_after_initialize(cfg, name) == cfg

\* no Initialize reply was sent to the session yet
NoReply == [sent |-> FALSE]

\* the latest Initialize reply sent to each session is kept, with the file
\* contents its configuration was read from and the number of that read;
\* again tells that the reply before it was made from the same contents
\* after an earlier reread
RECURSIVE Recorded(_, _, _)
Recorded(ir, ws, sends) ==
    IF sends = <<>> THEN ir
    ELSE LET s == Head(sends)
             c == ws[s.id].addr
             old == ir[c]
             r == [sent |-> TRUE, file |-> loads.file, loads |-> loads.n,
                   commands |-> s.msg.commands, schedules |-> s.msg.schedules,
                   again |-> /\ old.sent
                             /\ old.file = loads.file
                             /\ old.loads >= 1
                             /\ old.loads < loads.n]
         IN Recorded([ir EXCEPT ![c] = r], ws, Tail(sends))

\* impl Handler<WorkerSessionToServer> for Server, Initialize { id, name }
HandleWorkerInitialize ==
    /\ mailbox # <<>>
    /\ Head(mailbox).type = "WorkerSessionToServer::Initialize"
    /\ LET msg == Head(mailbox)
           commands == initialize_commands(config, msg.name)
           schedule == initialize_schedule(config, msg.name)
           reply == Initialize(commands, schedule)
           c1 == Call("direct_worker_message", reply, None,
                      direct_worker_message(workers, reply, msg.id))
       IN /\ last' = Handled(<<c1>>)
          /\ outbox' = Deliver(outbox, workers, SendsOf(<<c1>>))
          /\ config' = config_after_initialize(config, msg.name)
          /\ initReply' = Recorded(initReply, workers, SendsOf(<<c1>>))
    /\ mailbox' = Tail(mailbox)
    /\ UNCHANGED <<workers, managers, worker_count, manager_count, nextId,
                   sess, wc, loads>>
    /\ RouterFrame

\* impl Handler<ManagerSessionToServer> for Server, Initialize { id, name }
HandleManagerInitialize ==
    /\ mailbox # <<>>
    /\ Head(mailbox).type = "ManagerSessionToServer::Initialize"
    /\ LET msg == Head(mailbox)
           reply == [type |-> "Initialize"]
           c1 == Call("direct_manager_message", reply, None,
                      direct_manager_message(managers, reply, msg.id))
       IN /\ last' = Handled(<<c1>>)
    /\ mailbox' = Tail(mailbox)
    /\ UNCHANGED <<workers, managers, worker_count, manager_count, config, nextId,
                   sess, outbox, wc>>
    /\ KeepReplies
    /\ RouterFrame

\* a failed reread taken to leave an empty configuration
reloaded_config_or_default(cfg, res) ==
    IF res.ok THEN res.config
    ELSE [default |-> EmptyMap, overrides |-> EmptyMap, schedules |-> EmptyMap]

\* if let Ok(config) = reload(..) { self.config = config; }
reloaded_config(cfg, res) == IF res.ok THEN res.config ELSE cfg

\* the flag of the reply taken from the result of the reread
reload_reply_result(res) == res.ok

\* the flag of ServerToManagerClient::Reload sent back
reload_reply(res) == TRUE

\* impl Handler<ManagerSessionToServer> for Server, Reload(id)
HandleReload(file) ==
    /\ mailbox # <<>>
    /\ Head(mailbox).type = "ManagerSessionToServer::Reload"
    /\ LET msg == Head(mailbox)
           res == reload(file)
           reply == [type |-> "Reload", success |-> reload_reply(res)]
           c1 == Call("direct_manager_message", reply, None,
                      direct_manager_message(managers, reply, msg.id))
           c2 == Call("broadcast_workers_message", [type |-> "Reload"], None,
                      broadcast_workers_message(workers, [type |-> "Reload"], None))
       IN /\ config' = reloaded_config(config, res)
          /\ loads' = IF res.ok THEN [file |-> file, n |-> loads.n + 1] ELSE loads
          /\ last' = [msg |-> msg, calls |-> <<c1, c2>>, res |-> res]
          /\ outbox' = Deliver(outbox, workers, SendsOf(<<c1, c2>>))
    /\ mailbox' = Tail(mailbox)
    /\ UNCHANGED <<workers, managers, worker_count, manager_count, nextId,
                   sess, wc, initReply>>
    /\ RouterFrame

\* the snapshot with the ip and the name of an entry exchanged
workers_snapshot_swapped(ws) ==
    [id \in DOMAIN ws |-> << ws[id].name, ws[id].ip >>]

\* self.workers.iter().map(|(id, worker)| (*id, (ip, name))).collect()
workers_snapshot(ws) ==
    [id \in DOMAIN ws |-> << ws[id].ip, ws[id].name >>]

\* impl Handler<ManagerSessionToServer> for Server, ListWorkers(id)
HandleListWorkers ==
    /\ mailbox # <<>>
    /\ Head(mailbox).type = "ManagerSessionToServer::ListWorkers"
    /\ LET msg == Head(mailbox)
           reply == [type |-> "WorkersList", workers |-> workers_snapshot(workers)]
           c1 == Call("direct_manager_message", reply, None,
                      direct_manager_message(managers, reply, msg.id))
       IN /\ last' = Handled(<<c1>>)
    /\ mailbox' = Tail(mailbox)
    /\ UNCHANGED <<workers, managers, worker_count, manager_count, config, nextId,
                   sess, outbox, wc>>
    /\ KeepReplies
    /\ RouterFrame

\* ServerToManagerClient::Schedules { name, schedules }
SchedulesReply(name, schedules) ==
    [type |-> "Schedules", name |-> name, schedules |-> schedules]

\* every worker taken to match the name asked for
name_matches_any(ws, name) == DOMAIN ws

\* self.workers.iter().find(|(_k, v)| *v.name() == name): the entries the
\* search may return, the first match in the iteration order of the HashMap
name_matches(ws, name) == {id \in DOMAIN ws : ws[id].name = name}

\* impl Handler<ManagerSessionToServer> for Server, Schedules { id, name }
HandleManagerSchedules ==
    /\ mailbox # <<>>
    /\ Head(mailbox).type = "ManagerSessionToServer::Schedules"
    /\ LET msg == Head(mailbox)
           found == name_matches(workers, msg.name)
           ask == [type |-> "Schedules", manager_id |-> msg.id]
           reply == SchedulesReply(msg.name, <<>>)
       IN IF found # {}
          THEN \E worker_id \in found :
                LET c1 == Call("direct_worker_message", ask, None,
                               direct_worker_message(workers, ask, worker_id))
                IN /\ last' = Handled(<<c1>>)
                   /\ outbox' = Deliver(outbox, workers, SendsOf(<<c1>>))
          ELSE LET c1 == Call("direct_manager_message", reply, None,
                              direct_manager_message(managers, reply, msg.id))
               IN /\ last' = Handled(<<c1>>)
                  /\ outbox' = outbox
    /\ mailbox' = Tail(mailbox)
    /\ UNCHANGED <<workers, managers, worker_count, manager_count, config, nextId,
                   sess, wc>>
    /\ KeepReplies
    /\ RouterFrame

\* impl Handler<WorkerSessionToServer> for Server,
\* Schedules { manager_id, name, schedules }
HandleWorkerSchedules ==
    /\ mailbox # <<>>
    /\ Head(mailbox).type = "WorkerSessionToServer::Schedules"
    /\ LET msg == Head(mailbox)
           reply == SchedulesReply(msg.name, msg.schedules)
           c1 == Call("direct_manager_message", reply, None,
                      direct_manager_message(managers, reply, msg.manager_id))
       IN /\ last' = Handled(<<c1>>)
    /\ mailbox' = Tail(mailbox)
    /\ UNCHANGED <<workers, managers, worker_count, manager_count, config, nextId,
                   sess, outbox, wc>>
    /\ KeepReplies
    /\ RouterFrame

\* ServerToManagerClient::QueryReturn
QueryReturn(doc, done) ==
    [type |-> "QueryReturn", stdout |-> doc.stdout, stderr |-> doc.stderr,
     status |-> doc.status, start_time |-> doc.start_time,
     end_time |-> doc.end_time, done |-> done]

\* the frame of an empty result: OffsetDateTime::now_utc() for both times
EmptyReturn ==
    QueryReturn([stdout |-> <<>>, stderr |-> <<>>, status |-> 0,
                 start_time |-> "now_utc", end_time |-> "now_utc"], TRUE)

\* done taken to be set on the first document
query_done_first(idx, output_len) == idx = 0

\* done: idx == (output_len - 1), idx counted from 0
query_done(idx, output_len) == idx = output_len - 1

\* impl Handler<ManagerSessionToServer> for Server, Query { id, output }
HandleQuery ==
    /\ mailbox # <<>>
    /\ Head(mailbox).type = "ManagerSessionToServer::Query"
    /\ LET msg == Head(mailbox)
           output == msg.output
           calls ==
              IF output = <<>>
              THEN << Call("direct_manager_message", EmptyReturn, None,
                           direct_manager_message(managers, EmptyReturn, msg.id)) >>
              ELSE [i \in 1..Len(output) |->
                      LET m == QueryReturn(output[i], query_done(i - 1, Len(output)))
                      IN Call("direct_manager_message", m, None,
                              direct_manager_message(managers, m, msg.id))]
       IN /\ last' = Handled(calls)
    /\ mailbox' = Tail(mailbox)
    /\ UNCHANGED <<workers, managers, worker_count, manager_count, config, nextId,
                   sess, outbox, wc>>
    /\ KeepReplies
    /\ RouterFrame

(***************************************************************************)
(* The worker client (pudw/src/actor/mod.rs), as far as the router sees    *)
(* it: its tables, its continuation buffer and the Initialize frames it    *)
(* has written to the socket that the session has not handled yet.         *)
(***************************************************************************)
NewWorker == [commands |-> EmptyMap, schedules |-> <<>>, cont_bytes |-> <<>>, written |-> 0]

\* Worker::initialize: writes the Initialize request
initialize(w) == [w EXCEPT !.written = @ + 1]

\* Worker::handle_binary
worker_handle_binary(w, bytes) ==
    LET d == deserialize(bytes) IN
    IF d.ok
    THEN CASE d.msg.type = "Initialize" ->
                [w EXCEPT !.commands = d.msg.commands, !.schedules = d.msg.schedules]
           [] d.msg.type = "Reload" -> initialize(w)
           [] OTHER -> w
    ELSE w

\* Worker::handle_continuation
worker_handle_continuation(w, item, bytes) ==
    CASE item = "FirstText" -> w
      [] item \in {"FirstBinary", "Continue"} ->
            [w EXCEPT !.cont_bytes = extend_from_slice(@, bytes)]
      [] item = "Last" ->
            LET w1 == [w EXCEPT !.cont_bytes = extend_from_slice(@, bytes)]
                w2 == worker_handle_binary(w1, bytes)
            IN [w2 EXCEPT !.cont_bytes = <<>>]

\* impl StreamHandler<Result<Frame, WsProtocolError>> for Worker
worker_stream_handle(w, f) ==
    IF f.frame = "Binary" THEN worker_handle_binary(w, f.bytes)
    ELSE worker_handle_continuation(w, f.item, f.bytes)

RECURSIVE worker_stream_handle_all(_, _)
worker_stream_handle_all(w, frames) ==
    IF frames = <<>> THEN w
    ELSE worker_stream_handle_all(worker_stream_handle(w, Head(frames)), Tail(frames))

(***************************************************************************)
(* Sessions (puds/src/worker/session.rs, puds/src/manager/session.rs).     *)
(* The clock is left out here: a heartbeat timeout may happen whenever the *)
(* session runs.  SpecHb has the clock.                                    *)
(***************************************************************************)
KindOf(c) == IF c \in WorkerConns THEN "Worker" ELSE "Manager"

Disconnect(c) == [type |-> KindOf(c) \o "Disconnect", id |-> sess[c].id]

\* do_send and send put a message into the Server's mailbox
Post(msg) ==
    /\ Len(mailbox) < MaxMailbox
    /\ mailbox' = Append(mailbox, msg)

\* the endpoint starts the session; Actor::started sends Connect and waits
\* for the id.  A worker client writes its Initialize request on start.
SessionStarted(c) ==
    /\ sess[c].state = "idle"
    /\ Cardinality({x \in Conns : sess[x].state # "idle"}) < MaxConnects
    /\ \A b \in Before(c) : sess[b].state # "idle"
    /\ \E name \in NamesOf(c) :
        /\ sess' = [sess EXCEPT ![c].state = "connecting", ![c].name = name]
        /\ Post([type |-> KindOf(c) \o "Connect", addr |-> c,
                                       ip |-> IpOf(c), name |-> name])
    /\ wc' = IF c \in WorkerConns THEN [wc EXCEPT ![c] = initialize(NewWorker)] ELSE wc
    /\ last' = NoLast
    /\ UNCHANGED <<workers, managers, worker_count, manager_count, config, nextId,
                   outbox>>
    /\ KeepReplies
    /\ RouterFrame

\* worker Session::handle_binary, WorkerClientToWorkerSession::Initialize
WorkerSessionInitialize(c) ==
    /\ c \in WorkerConns
    /\ sess[c].state = "running"
    /\ wc[c].written > 0
    /\ wc' = [wc EXCEPT ![c].written = @ - 1]
    /\ Post([type |-> "WorkerSessionToServer::Initialize",
                                   id |-> sess[c].id, name |-> sess[c].name])
    /\ last' = NoLast
    /\ UNCHANGED <<workers, managers, worker_count, manager_count, config, nextId,
                   sess, outbox>>
    /\ KeepReplies
    /\ RouterFrame

\* manager Session::handle_binary: the CLI sends Initialize, then its request
ManagerSessionInitialize(c) ==
    /\ c \in ManagerConns
    /\ sess[c].state = "running"
    /\ sess[c].reqs = 0
    /\ sess' = [sess EXCEPT ![c].reqs = 1]
    /\ Post([type |-> "ManagerSessionToServer::Initialize",
                                   id |-> sess[c].id, name |-> sess[c].name])
    /\ last' = NoLast
    /\ UNCHANGED <<workers, managers, worker_count, manager_count, config, nextId,
                   outbox, wc>>
    /\ KeepReplies
    /\ RouterFrame

ManagerSessionReload(c) ==
    /\ c \in ManagerConns
    /\ sess[c].state = "running"
    /\ sess[c].reqs = 1
    /\ sess' = [sess EXCEPT ![c].reqs = 2]
    /\ Post([type |-> "ManagerSessionToServer::Reload",
                                   id |-> sess[c].id])
    /\ last' = NoLast
    /\ UNCHANGED <<workers, managers, worker_count, manager_count, config, nextId,
                   outbox, wc>>
    /\ KeepReplies
    /\ RouterFrame

\* the Reload requests the manager clients have sent over open connections
ReloadsAsked ==
    SumOver(ManagerConns, [c \in ManagerConns |->
                IF sess[c].reqs >= 1 THEN sess[c].reqs - 1 ELSE 0])

\* a manager client that repeats its Reload over the same connection
ManagerSessionReloadAgain(c) ==
    /\ c \in ManagerConns
    /\ sess[c].state = "running"
    /\ sess[c].reqs >= 2
    /\ ReloadsAsked < MaxReloads
    /\ sess' = [sess EXCEPT ![c].reqs = @ + 1]
    /\ Post([type |-> "ManagerSessionToServer::Reload",
                                   id |-> sess[c].id])
    /\ last' = NoLast
    /\ UNCHANGED <<workers, managers, worker_count, manager_count, config, nextId,
                   outbox, wc>>
    /\ KeepReplies
    /\ RouterFrame

\* manager Session::handle_binary, ManagerClientToManagerSession::ListWorkers
ManagerSessionListWorkers(c) ==
    /\ c \in ManagerConns
    /\ sess[c].state = "running"
    /\ sess[c].reqs = 1
    /\ sess' = [sess EXCEPT ![c].reqs = 2]
    /\ Post([type |-> "ManagerSessionToServer::ListWorkers", id |-> sess[c].id])
    /\ last' = NoLast
    /\ UNCHANGED <<workers, managers, worker_count, manager_count, config, nextId,
                   outbox, wc>>
    /\ KeepReplies
    /\ RouterFrame

\* manager Session::handle_binary, ManagerClientToManagerSession::Schedules(name)
ManagerSessionSchedules(c) ==
    /\ c \in ManagerConns
    /\ sess[c].state = "running"
    /\ sess[c].reqs = 1
    /\ sess' = [sess EXCEPT ![c].reqs = 2]
    \* the names a CLI may ask about: no worker is ever named gamma
    /\ \E name \in {"alpha", "beta", "gamma"} :
        Post([type |-> "ManagerSessionToServer::Schedules",
                                  id |-> sess[c].id, name |-> name])
    /\ last' = NoLast
    /\ UNCHANGED <<workers, managers, worker_count, manager_count, config, nextId,
                   outbox, wc>>
    /\ KeepReplies
    /\ RouterFrame

\* the i-th job document of the archive, as far as QueryReturn carries it;
\* the documents differ in every field
ArchiveDoc(i) ==
    [stdout |-> [j \in 1..i |-> "out"], stderr |-> [j \in 1..(i - 1) |-> "err"],
     status |-> i - 1, start_time |-> 10 * i, end_time |-> 10 * i + 1]

\* manager Session::handle_binary, ManagerClientToManagerSession::Query, with
\* the future it spawns: the cursor is created and its result sent on.  A
\* cursor that fails sends nothing.
ManagerSessionQuery(c) ==
    /\ c \in ManagerConns
    /\ sess[c].state = "running"
    /\ sess[c].reqs = 1
    /\ sess' = [sess EXCEPT ![c].reqs = 2]
    \* what Cursor::create may return: the first n documents of the archive
    /\ \E output \in {[i \in 1..n |-> ArchiveDoc(i)] : n \in 0..MaxDocs} :
        Post([type |-> "ManagerSessionToServer::Query",
                                  id |-> sess[c].id, output |-> output])
    /\ last' = NoLast
    /\ UNCHANGED <<workers, managers, worker_count, manager_count, config, nextId,
                   outbox, wc>>
    /\ KeepReplies
    /\ RouterFrame

\* worker Session::handle_binary, WorkerClientToWorkerSession::Schedules
\* { manager_id, schedules }: the frame names any id handed out so far and
\* carries the schedule list the worker client has loaded
WorkerSessionSchedules(c) ==
    /\ c \in WorkerConns
    /\ sess[c].state = "running"
    /\ \E manager_id \in 1..(nextId - 1), schedules \in {wc[c].schedules} :
        Post([type |-> "WorkerSessionToServer::Schedules", manager_id |-> manager_id,
              name |-> sess[c].name, schedules |-> schedules])
    /\ last' = NoLast
    /\ UNCHANGED <<workers, managers, worker_count, manager_count, config, nextId,
                   sess, outbox, wc>>
    /\ KeepReplies
    /\ RouterFrame

\* Session::hb, the timeout branch: Disconnect, then ctx.stop()
SessionHbTimeout(c) ==
    /\ sess[c].state = "running"
    /\ sess' = [sess EXCEPT ![c].state = "stopping"]
    /\ Post(Disconnect(c))
    /\ outbox' = IF c \in WorkerConns THEN [outbox EXCEPT ![c] = <<>>] ELSE outbox
    /\ wc' = IF c \in WorkerConns THEN [wc EXCEPT ![c] = NewWorker] ELSE wc
    /\ last' = NoLast
    /\ UNCHANGED <<workers, managers, worker_count, manager_count, config, nextId>>
    /\ initReply' = IF c \in WorkerConns THEN [initReply EXCEPT ![c] = NoReply]
                                          ELSE initReply
    /\ UNCHANGED loads
    /\ RouterFrame

\* a session that is gone, and the client of a closed connection
Stopped == [state |-> "stopped", id |-> 0, name |-> "", reqs |-> 0]

\* Actor::stopping, after ctx.stop(): from the heartbeat, a close frame, a
\* stream error or the end of the stream
SessionStopping(c) ==
    /\ sess[c].state \in {"running", "stopping"}
    /\ sess' = [sess EXCEPT ![c] = Stopped]
    /\ Post(Disconnect(c))
    /\ outbox' = IF c \in WorkerConns THEN [outbox EXCEPT ![c] = <<>>] ELSE outbox
    /\ wc' = IF c \in WorkerConns THEN [wc EXCEPT ![c] = NewWorker] ELSE wc
    /\ last' = NoLast
    /\ UNCHANGED <<workers, managers, worker_count, manager_count, config, nextId>>
    /\ initReply' = IF c \in WorkerConns THEN [initReply EXCEPT ![c] = NoReply]
                                          ELSE initReply
    /\ UNCHANGED loads
    /\ RouterFrame

\* impl Handler<ServerToWorkerClient> for Session writes the frames of one
\* message, and the worker client handles them
WorkerClientReceive(c) ==
    /\ c \in WorkerConns
    /\ sess[c].state = "running"
    /\ outbox[c] # <<>>
    /\ wc' = [wc EXCEPT ![c] =
                worker_stream_handle_all(@, handle_server_to_client(Head(outbox[c])))]
    /\ outbox' = [outbox EXCEPT ![c] = Tail(@)]
    /\ last' = NoLast
    /\ UNCHANGED <<workers, managers, worker_count, manager_count, config, mailbox,
                   nextId, sess>>
    /\ KeepReplies
    /\ RouterFrame

RouterInit ==
    /\ workers = EmptyMap
    /\ managers = EmptyMap
    /\ worker_count = 0
    /\ manager_count = 0
    /\ config = ConfigV1
    /\ mailbox = <<>>
    /\ nextId = 1
    /\ last = NoLast
    /\ sess = [c \in Conns |-> [state |-> "idle", id |-> 0, name |-> "", reqs |-> 0]]
    /\ outbox = [c \in WorkerConns |-> <<>>]
    /\ wc = [c \in WorkerConns |-> NewWorker]
    /\ loads = [file |-> [ok |-> TRUE, config |-> ConfigV1], n |-> 0]
    /\ initReply = [c \in WorkerConns |-> NoReply]

RouterNext ==
    \/ HandleWorkerConnect
    \/ HandleManagerConnect
    \/ HandleWorkerDisconnect
    \/ HandleManagerDisconnect
    \/ HandleWorkerInitialize
    \/ HandleManagerInitialize
    \/ \E file \in DiskStates : HandleReload(file)
    \/ \E c \in Conns : SessionStarted(c)
    \/ \E c \in Conns : WorkerSessionInitialize(c)
    \/ \E c \in Conns : ManagerSessionInitialize(c)
    \/ \E c \in Conns : ManagerSessionReload(c)
    \/ \E c \in Conns : SessionHbTimeout(c)
    \/ \E c \in Conns : SessionStopping(c)
    \/ \E c \in Conns : WorkerClientReceive(c)

\* a Disconnect that no session of the model sent: of either kind, for any
\* id, handed out by now or not
StrayDisconnect ==
    /\ \E kind \in {"Worker", "Manager"}, id \in 0..nextId :
          Post([type |-> kind \o "Disconnect", id |-> id])
    /\ last' = NoLast
    /\ UNCHANGED <<workers, managers, worker_count, manager_count, config, nextId, sess,
                   outbox, wc>>
    /\ KeepReplies
    /\ RouterFrame

\* the router given Disconnects by anyone
RegistryNext ==
    \/ RouterNext
    \/ StrayDisconnect

\* the router with manager clients that send one of the other requests
RequestNext ==
    \/ HandleWorkerConnect
    \/ HandleManagerConnect
    \/ HandleWorkerDisconnect
    \/ HandleManagerDisconnect
    \/ HandleWorkerInitialize
    \/ HandleManagerInitialize
    \/ HandleListWorkers
    \/ HandleManagerSchedules
    \/ HandleWorkerSchedules
    \/ HandleQuery
    \/ \E c \in Conns : SessionStarted(c)
    \/ \E c \in Conns : WorkerSessionInitialize(c)
    \/ \E c \in Conns : ManagerSessionInitialize(c)
    \/ \E c \in Conns : ManagerSessionListWorkers(c)
    \/ \E c \in Conns : ManagerSessionSchedules(c)
    \/ \E c \in Conns : ManagerSessionQuery(c)
    \/ \E c \in Conns : WorkerSessionSchedules(c)
    \/ \E c \in Conns : SessionHbTimeout(c)
    \/ \E c \in Conns : SessionStopping(c)
    \/ \E c \in Conns : WorkerClientReceive(c)

\* the router once worker w1 and manager m1 have connected: the state the
\* steps SessionStarted, HandleWorkerConnect, SessionStarted and
\* HandleManagerConnect lead to
RouterConnected ==
    /\ workers = MapOf({<<1, [name |-> "alpha", ip |-> IpOf("w1"), addr |-> "w1"]>>})
    /\ managers = MapOf({<<2, [addr |-> "m1"]>>})
    /\ worker_count = 1
    /\ manager_count = 1
    /\ config = ConfigV1
    /\ mailbox = <<>>
    /\ nextId = 3
    /\ last = NoLast
    /\ sess = [c \in Conns |->
                CASE c = "w1" -> [state |-> "running", id |-> 1, name |-> "alpha", reqs |-> 0]
                  [] c = "m1" -> [state |-> "running", id |-> 2, name |-> "cli", reqs |-> 0]
                  [] OTHER -> [state |-> "idle", id |-> 0, name |-> "", reqs |-> 0]]
    /\ outbox = [c \in WorkerConns |-> <<>>]
    /\ wc = [c \in WorkerConns |-> IF c = "w1" THEN initialize(NewWorker) ELSE NewWorker]
    /\ loads = [file |-> [ok |-> TRUE, config |-> ConfigV1], n |-> 0]
    /\ initReply = [c \in WorkerConns |-> NoReply]

\* the router with a manager client that repeats its Reload, over
\* connections that stay open
ReloadNext ==
    \/ HandleWorkerInitialize
    \/ HandleManagerInitialize
    \/ \E file \in DiskStates : HandleReload(file)
    \/ \E c \in Conns : WorkerSessionInitialize(c)
    \/ \E c \in Conns : ManagerSessionInitialize(c)
    \/ \E c \in Conns : ManagerSessionReload(c)
    \/ \E c \in Conns : ManagerSessionReloadAgain(c)
    \/ \E c \in Conns : WorkerClientReceive(c)

(***************************************************************************)
(* The jobs of a worker session (puds/src/worker/session.rs): the frames   *)
(* JobStart, Stdout, Stderr, Status and JobEnd of the session of w1, and   *)
(* the documents it hands to the archive.  The times of a Job are left     *)
(* out.  A line or a code is the number of the frame that carries it, so   *)
(* that no two are alike.                                                  *)
(***************************************************************************)
JobIds == {1, 2}

\* Job::new(self.id, &self.name, id, &name)
Job_new(worker_id, worker_name, job_id, job_name) ==
    [worker_id |-> worker_id, worker_name |-> worker_name, job_id |-> job_id,
     job_name |-> job_name, stdout |-> <<>>, stderr |-> <<>>, status |-> 0]

\* the job taken to stay in the map at JobEnd
jobs_remove_kept(js, id) == js

\* self.jobs.remove(&id)
jobs_remove(js, id) == Remove(js, id)

\* a line for an id that is not in the map taken to open a job
push_line_or_insert(js, id, field, line) ==
    IF id \in DOMAIN js THEN [js EXCEPT ![id][field] = Append(@, line)]
    ELSE Insert(js, id, [Job_new(0, "", id, "") EXCEPT ![field] = << line >>])

\* if let Some(job) = self.jobs.get_mut(&id) { job.stdout_mut().push(line); }
push_line(js, id, field, line) ==
    IF id \in DOMAIN js THEN [js EXCEPT ![id][field] = Append(@, line)] ELSE js

\* the job arms of Session::handle_binary: the map after the frame, and the
\* documents store_job_document hands to Document::create
session_handle_job(js, self, message) ==
    CASE message.type = "JobStart" ->
            [jobs |-> Insert(js, message.id,
                             Job_new(self.id, self.name, message.id, message.name)),
             stored |-> <<>>]
      [] message.type = "JobEnd" ->
            IF message.id \in DOMAIN js
            THEN [jobs |-> jobs_remove(js, message.id),
                  stored |-> << [collection |-> self.name, document |-> js[message.id]] >>]
            ELSE [jobs |-> js, stored |-> <<>>]
      [] message.type = "Stdout" ->
            [jobs |-> push_line(js, message.id, "stdout", message.line), stored |-> <<>>]
      [] message.type = "Stderr" ->
            [jobs |-> push_line(js, message.id, "stderr", message.line), stored |-> <<>>]
      [] message.type = "Status" ->
            [jobs |-> IF message.id \in DOMAIN js
                      THEN [js EXCEPT ![message.id].status = message.code] ELSE js,
             stored |-> <<>>]

\* the job frames that may arrive as frame number k
JobFrames(k) ==
    UNION {{[type |-> "JobStart", id |-> id, name |-> "ls"],
            [type |-> "JobEnd", id |-> id, name |-> "ls"],
            [type |-> "Stdout", id |-> id, line |-> k],
            [type |-> "Stderr", id |-> id, line |-> k],
            [type |-> "Status", id |-> id, code |-> k]} : id \in JobIds}

\* worker Session::handle_binary on a job frame
WorkerSessionJobFrame ==
    /\ sess["w1"].state = "running"
    /\ Len(seen) < MaxFrames
    /\ \E message \in JobFrames(Len(seen) + 1) :
        LET after == session_handle_job(jobs, sess["w1"], message) IN
        /\ jobs' = after.jobs
        /\ archive' = archive \o after.stored
        /\ seen' = Append(seen, message)
    /\ UNCHANGED <<threadVars, routerVars, hbVars, jobVars, schedVars, queueVars, frameVars, cliVars, calVars>>

ArchiveInit ==
    /\ jobs = EmptyMap
    /\ archive = <<>>
    /\ seen = <<>>

(***************************************************************************)
(* Calendars (pudlib/src/schedule).  A string is taken character by        *)
(* character.  "R" asks the thread's random number generator for a value:  *)
(* the parser is given what the generator is about to return.              *)
(***************************************************************************)
\* the mnemonics of parse_calendar
MINUTELY == "minutely"
HOURLY == "hourly"
DAILY == "daily"
WEEKLY == "weekly"
MONTHLY == "monthly"
QUARTERLY == "quarterly"
SEMIANUALLY == "semiannually"
YEARLY == "yearly"

Mnemonics == {MINUTELY, HOURLY, DAILY, WEEKLY, MONTHLY, QUARTERLY, SEMIANUALLY, YEARLY}

\* the calendars given to parse_calendar
Calendars ==
    Mnemonics \cup
    {"*-*-* *:*:*", "Mon..Fri *-*-* 09:00:00", "*:*:*", "*:*:2", "a b c d",
     "sun,TUE..thu *-1..6-1/10 9..17:0..30/15:0",
     "1970-*-* *:*:*", "1971-*-* *:*:*",
     "1970..1971-*-* *:*:*", "1971..1971-*-* *:*:*"}

\* the calendars with a random value
RandomCalendars == {"R:R:R", "*-R-R R:R:R"}

\* str::chars for the strings of the model
chars(string) ==
    CASE string = "minutely" ->
            <<"m", "i", "n", "u", "t", "e", "l", "y">>
      [] string = "hourly" ->
            <<"h", "o", "u", "r", "l", "y">>
      [] string = "daily" ->
            <<"d", "a", "i", "l", "y">>
      [] string = "weekly" ->
            <<"w", "e", "e", "k", "l", "y">>
      [] string = "monthly" ->
            <<"m", "o", "n", "t", "h", "l", "y">>
      [] string = "quarterly" ->
            <<"q", "u", "a", "r", "t", "e", "r", "l", "y">>
      [] string = "semiannually" ->
            <<"s", "e", "m", "i", "a", "n", "n", "u", "a", "l", "l", "y">>
      [] string = "yearly" ->
            <<"y", "e", "a", "r", "l", "y">>
      [] string = "*-*-* *:*:*" ->
            <<"*", "-", "*", "-", "*", " ", "*", ":", "*", ":", "*">>
      [] string = "Mon..Fri *-*-* 09:00:00" ->
            <<"M", "o", "n", ".", ".", "F", "r", "i", " ", "*", "-", "*", "-", "*", " ", "0", "9", ":", "0", "0", ":", "0", "0">>
      [] string = "*:*:*" ->
            <<"*", ":", "*", ":", "*">>
      [] string = "*:*:2" ->
            <<"*", ":", "*", ":", "2">>
      [] string = "a b c d" ->
            <<"a", " ", "b", " ", "c", " ", "d">>
      [] string = "sun,TUE..thu *-1..6-1/10 9..17:0..30/15:0" ->
            <<"s", "u", "n", ",", "T", "U", "E", ".", ".", "t", "h", "u", " ", "*", "-", "1", ".", ".", "6", "-", "1", "/", "1", "0", " ", "9", ".", ".", "1", "7", ":", "0", ".", ".", "3", "0", "/", "1", "5", ":", "0">>
      [] string = "1970-*-* *:*:*" ->
            <<"1", "9", "7", "0", "-", "*", "-", "*", " ", "*", ":", "*", ":", "*">>
      [] string = "1971-*-* *:*:*" ->
            <<"1", "9", "7", "1", "-", "*", "-", "*", " ", "*", ":", "*", ":", "*">>
      [] string = "1970..1971-*-* *:*:*" ->
            <<"1", "9", "7", "0", ".", ".", "1", "9", "7", "1", "-", "*", "-", "*", " ", "*", ":", "*", ":", "*">>
      [] string = "1971..1971-*-* *:*:*" ->
            <<"1", "9", "7", "1", ".", ".", "1", "9", "7", "1", "-", "*", "-", "*", " ", "*", ":", "*", ":", "*">>
      [] string = "R:R:R" ->
            <<"R", ":", "R", ":", "R">>
      [] string = "*-R-R R:R:R" ->
            <<"*", "-", "R", "-", "R", " ", "R", ":", "R", ":", "R">>

UpperCase == <<"A", "B", "C", "D", "E", "F", "G", "H", "I", "J", "K", "L", "M", "N", "O", "P", "Q", "R", "S", "T", "U", "V", "W", "X", "Y", "Z">>

LowerCase == <<"a", "b", "c", "d", "e", "f", "g", "h", "i", "j", "k", "l", "m", "n", "o", "p", "q", "r", "s", "t", "u", "v", "w", "x", "y", "z">>

Digits == <<"0", "1", "2", "3", "4", "5", "6", "7", "8", "9">>

\* char::is_ascii_digit, \d
is_digit(c) == \E k \in 1..10 : Digits[k] = c

\* [a-zA-Z]
is_letter(c) == \E k \in 1..26 : UpperCase[k] = c \/ LowerCase[k] = c

\* str::to_ascii_lowercase
to_ascii_lowercase(cs) ==
    [i \in 1..Len(cs) |->
        IF \E k \in 1..26 : UpperCase[k] = cs[i]
        THEN LowerCase[CHOOSE k \in 1..26 : UpperCase[k] = cs[i]]
        ELSE cs[i]]

\* str::split(sep): the pieces between the separators, empty ones included
RECURSIVE split(_, _)
split(cs, sep) ==
    IF \A i \in 1..Len(cs) : cs[i] # sep
    THEN <<cs>>
    ELSE LET i == CHOOSE k \in 1..Len(cs) :
                      cs[k] = sep /\ \A j \in 1..(k - 1) : cs[j] # sep
         IN <<SubSeq(cs, 1, i - 1)>> \o split(SubSeq(cs, i + 1, Len(cs)), sep)

\* str::split_whitespace: the pieces that are not empty
split_whitespace(cs) == SelectSeq(split(cs, " "), LAMBDA part : part # <<>>)

\* a Result: Ok(v) or Err(err)
Ok(v) == [ok |-> TRUE, err |-> "", v |-> v]

Err(err) == [ok |-> FALSE, err |-> err, v |-> <<>>]

\* the value of a run of digits
RECURSIVE digits_value(_)
digits_value(cs) ==
    IF cs = <<>>
    THEN 0
    ELSE 10 * digits_value(SubSeq(cs, 1, Len(cs) - 1))
         + (CHOOSE k \in 1..10 : Digits[k] = cs[Len(cs)]) - 1

\* str::parse for an unsigned integer type with the largest value max, or
\* for i32 with max = 2^31 - 1: digits after an optional "+", within range
parse_int(cs, max) ==
    LET body == IF cs # <<>> /\ cs[1] = "+" THEN Tail(cs) ELSE cs IN
    IF body = <<>> \/ \E i \in 1..Len(body) : ~is_digit(body[i])
    THEN Err("ParseIntError")
    ELSE IF digits_value(body) > max
         THEN Err("ParseIntError")
         ELSE Ok(digits_value(body))

\* the sorted vector of the distinct values of a set
sorted(values) ==
    [i \in 1..Cardinality(values) |->
        CHOOSE x \in values : Cardinality({y \in values : y < x}) = i - 1]

\* the values of the results, or the first error (the ? operator on each)
collect(results) ==
    IF \E i \in 1..Len(results) : ~results[i].ok
    THEN results[CHOOSE i \in 1..Len(results) :
                    ~results[i].ok /\ \A j \in 1..(i - 1) : results[j].ok]
    ELSE Ok([i \in 1..Len(results) |-> results[i].v])

\* the values of the pieces collected to a HashSet and sorted, or the first
\* error (scan with until_err)
collect_sorted(results) ==
    IF \E i \in 1..Len(results) : ~results[i].ok
    THEN results[CHOOSE i \in 1..Len(results) :
                    ~results[i].ok /\ \A j \in 1..(i - 1) : results[j].ok]
    ELSE Ok(sorted(UNION {{results[i].v[k] : k \in 1..Len(results[i].v)} :
                          i \in 1..Len(results)}))

\* (first..=end).step_by(step) as a vector
step_by(first, upto, step) ==
    sorted({x \in first..upto : (x - first) % step = 0})

\* where the run of one or two digits starting at s ends when the character
\* c follows it, 0 when there is none: \d{1,2} followed by c
digits_then(cs, s, c) ==
    IF s + 1 <= Len(cs) /\ is_digit(cs[s]) /\ cs[s + 1] = c
    THEN s
    ELSE IF s + 2 <= Len(cs) /\ is_digit(cs[s]) /\ is_digit(cs[s + 1]) /\ cs[s + 2] = c
         THEN s + 1
         ELSE 0

\* where the longest run of one or two digits starting at s ends, 0 when
\* there is none: \d{1,2}
digits_end(cs, s) ==
    IF s <= Len(cs) /\ is_digit(cs[s])
    THEN IF s + 1 <= Len(cs) /\ is_digit(cs[s + 1]) THEN s + 1 ELSE s
    ELSE 0

\* RANGE_RE, (\d{1,2})\.\.(\d{1,2}), matched from position s: its captures
range_at(cs, s) ==
    LET e == digits_then(cs, s, ".")
        f == digits_end(cs, e + 3)
    IN IF e > 0 /\ e + 3 <= Len(cs) /\ cs[e + 2] = "." /\ f > 0
       THEN Ok(<<SubSeq(cs, s, e), SubSeq(cs, e + 3, f)>>)
       ELSE Err("no match")

\* REP_RE, (\d{1,2})(\.\.(\d{1,2}))?/(\d{1,2}), matched from position s:
\* its captures 1, 3 and 4, capture 3 being empty when it took no part
rep_at(cs, s) ==
    LET plain == digits_then(cs, s, "/")
        e == digits_then(cs, s, ".")
        f == IF e > 0 /\ e + 3 <= Len(cs) /\ cs[e + 2] = "."
             THEN digits_then(cs, e + 3, "/")
             ELSE 0
    IN IF plain > 0 /\ digits_end(cs, plain + 2) > 0
       THEN Ok(<<SubSeq(cs, s, plain), <<>>,
                 SubSeq(cs, plain + 2, digits_end(cs, plain + 2))>>)
       ELSE IF f > 0 /\ digits_end(cs, f + 2) > 0
            THEN Ok(<<SubSeq(cs, s, e), SubSeq(cs, e + 3, f),
                      SubSeq(cs, f + 2, digits_end(cs, f + 2))>>)
            ELSE Err("no match")

\* where the run of letters starting at s ends, s - 1 when there is none
RECURSIVE letters_end(_, _)
letters_end(cs, s) ==
    IF s <= Len(cs) /\ is_letter(cs[s]) THEN letters_end(cs, s + 1) ELSE s - 1

\* DOW_RANGE_RE, ([a-zA-Z]{3,})\.\.([a-zA-Z]{3,}), matched from position s
dow_range_at(cs, s) ==
    LET e == letters_end(cs, s)
        f == letters_end(cs, e + 3)
    IN IF /\ e - s + 1 >= 3
          /\ e + 2 <= Len(cs) /\ cs[e + 1] = "." /\ cs[e + 2] = "."
          /\ f - (e + 3) + 1 >= 3
       THEN Ok(<<SubSeq(cs, s, e), SubSeq(cs, e + 3, f)>>)
       ELSE Err("no match")

\* Regex::captures (and is_match, its ok) given what the regex finds from
\* each position: the match that starts leftmost
captures(found) ==
    IF \E s \in 1..Len(found) : found[s].ok
    THEN found[CHOOSE s \in 1..Len(found) :
                   found[s].ok /\ \A r \in 1..(s - 1) : ~found[r].ok]
    ELSE Err("NoValidCaptures")

RANGE_RE(cs) == captures([s \in 1..Len(cs) |-> range_at(cs, s)])

REP_RE(cs) == captures([s \in 1..Len(cs) |-> rep_at(cs, s)])

DOW_RANGE_RE(cs) == captures([s \in 1..Len(cs) |-> dow_range_at(cs, s)])

\* parse_range once RANGE_RE has been applied
range_of(caps, max, one_based) ==
    IF ~caps.ok
    THEN caps
    ELSE LET first == digits_value(caps.v[1])
             second == digits_value(caps.v[2])
         IN IF \/ second < first
               \/ (one_based /\ first = 0)
               \/ (one_based /\ second > max)
               \/ (~one_based /\ second >= max)
            THEN Err("InvalidRange")
            ELSE Ok(step_by(first, second, 1))

\* parse_range
parse_range(range, max, one_based) == range_of(RANGE_RE(range), max, one_based)

\* parse_repetition once REP_RE has been applied; step_by panics on a
\* repetition of 0
repetition_of(caps, max) ==
    IF ~caps.ok
    THEN caps
    ELSE LET start == digits_value(caps.v[1])
             end == digits_value(caps.v[2])
             step == digits_value(caps.v[3])
         IN IF step = 0 /\ (caps.v[2] = <<>> \/ ~(end < start \/ end >= max))
            THEN Err("panic")
            ELSE IF caps.v[2] # <<>>
                 THEN IF end < start \/ end >= max
                      THEN Err("InvalidRange")
                      ELSE Ok(step_by(start, end, step))
                 ELSE Ok(step_by(start, max - 1, step))

\* parse_repetition
parse_repetition(rep, max) == repetition_of(REP_RE(rep), max)

\* parse_value once the string has been parsed as a u8
value_of(number) == IF number.ok THEN Ok(<<number.v>>) ELSE number

\* parse_value
parse_value(value) == value_of(parse_int(value, 255))

\* parse_rep_range_val
parse_rep_range_val(val, max, one_based) ==
    IF REP_RE(val).ok
    THEN parse_repetition(val, max)
    ELSE IF RANGE_RE(val).ok
         THEN parse_range(val, max, one_based)
         ELSE parse_value(val)

\* a field of a Realtime: All, or the values it holds (Hour::Hours, ...)
All == [all |-> TRUE, of |-> <<>>]

\* From<Vec<u8>> for DayOfWeek, Month, Day, Hour, Minute and Second
from_vec(value) == [all |-> FALSE, of |-> value]

\* From<u8> for the same
from_u8(value) == from_vec(<<value>>)

\* T::from(time_v) of parse_time_chunk, or its error
time_chunk_of(time_v) == IF time_v.ok THEN Ok(from_vec(time_v.v)) ELSE time_v

\* the ranges with the hour 24 among what is drawn
hms_rand_inclusive(T) ==
    CASE T = "Hour" -> [lo |-> 0, hi |-> 25]
      [] T = "Minute" -> [lo |-> 0, hi |-> 60]
      [] T = "Second" -> [lo |-> 0, hi |-> 60]

\* the range Hour::rand, Minute::rand and Second::rand give the generator:
\* lo..hi without hi
hms_rand(T) ==
    CASE T = "Hour" -> [lo |-> 0, hi |-> 24]
      [] T = "Minute" -> [lo |-> 0, hi |-> 60]
      [] T = "Second" -> [lo |-> 0, hi |-> 60]

\* the range Month::rand and Day::rand give the generator
ymd_rand(T) ==
    CASE T = "Month" -> [lo |-> 1, hi |-> 13]
      [] T = "Day" -> [lo |-> 1, hi |-> 29]

\* Rng::gen_range (random_range) of the generator in the state d
gen_range(range, d) == range.lo + (d % (range.hi - range.lo))

\* the generator in the state d, by what T::rand() returns for each T
thread_rng(d) ==
    [Hour |-> gen_range(hms_rand("Hour"), d),
     Minute |-> gen_range(hms_rand("Minute"), d),
     Second |-> gen_range(hms_rand("Second"), 7 * d),
     Month |-> gen_range(ymd_rand("Month"), d),
     Day |-> gen_range(ymd_rand("Day"), d)]

\* the generators of the model: each value of each range is drawn
Rngs == {thread_rng(d) : d \in 0..MaxDraw}

\* parse_time_chunk, rand being what T::rand() draws
parse_time_chunk(part, max, one_based, rand) ==
    IF part = <<"*">>
    THEN Ok(All)
    ELSE IF part = <<"R">>
    THEN Ok(from_vec(<<rand>>))
    ELSE time_chunk_of(collect_sorted(
            [i \in 1..Len(split(part, ",")) |->
                parse_rep_range_val(split(part, ",")[i], max, one_based)]))

HOURS_PER_DAY == 24
MINUTES_PER_HOUR == 60
SECONDS_PER_MINUTE == 60
MONTHS_PER_YEAR == 12
DAYS_PER_MONTH == 31

\* parse_hms once the string has been split
hms_of(hms_parts, rng) ==
    IF Len(hms_parts) = 3
    THEN collect(<< parse_time_chunk(hms_parts[1], HOURS_PER_DAY, FALSE, rng.Hour),
                    parse_time_chunk(hms_parts[2], MINUTES_PER_HOUR, FALSE, rng.Minute),
                    parse_time_chunk(hms_parts[3], SECONDS_PER_MINUTE, FALSE, rng.Second) >>)
    ELSE Err("InvalidTime")

\* parse_hms
parse_hms(hms, rng) == hms_of(split(hms, ":"), rng)

\* Year::All; Range(lo, hi) and Year(lo) are the other kinds parse_year gives
YearAll == [kind |-> "All", lo |-> 0, hi |-> 0]

\* parse_year once RANGE_RE has been applied and the string parsed as an i32
year_of(caps, year) ==
    IF caps.ok
    THEN Ok([kind |-> "Range", lo |-> digits_value(caps.v[1]),
             hi |-> digits_value(caps.v[2])])
    ELSE IF year.ok
         THEN Ok([kind |-> "Year", lo |-> year.v, hi |-> year.v])
         ELSE year

\* parse_year
parse_year(yearish) ==
    IF yearish = <<"*">>
    THEN Ok(YearAll)
    ELSE year_of(RANGE_RE(yearish), parse_int(yearish, 2147483647))

\* parse_date once the string has been split
date_of(date_parts, rng) ==
    IF Len(date_parts) = 3
    THEN collect(<< parse_year(date_parts[1]),
                    parse_time_chunk(date_parts[2], MONTHS_PER_YEAR, TRUE, rng.Month),
                    parse_time_chunk(date_parts[3], DAYS_PER_MONTH, TRUE, rng.Day) >>)
    ELSE Err("InvalidDate")

\* parse_date
parse_date(ymd, rng) == date_of(split(ymd, "-"), rng)

\* the names parse_dow knows for the days 0 to 6, Sunday being 0
DayNames ==
    << 
       {<<"s", "u", "n">>,
        <<"s", "u", "n", "d", "a", "y">>},
       {<<"m", "o", "n">>,
        <<"m", "o", "n", "d", "a", "y">>},
       {<<"t", "u", "e">>,
        <<"t", "u", "e", "s", "d", "a", "y">>},
       {<<"w", "e", "d">>,
        <<"w", "e", "d", "n", "e", "s", "d", "a", "y">>},
       {<<"t", "h", "u">>,
        <<"t", "h", "u", "r", "s", "d", "a", "y">>},
       {<<"f", "r", "i">>,
        <<"f", "r", "i", "d", "a", "y">>},
       {<<"s", "a", "t">>,
        <<"s", "a", "t", "u", "r", "d", "a", "y">>} >>

\* parse_dow without to_ascii_lowercase
parse_dow_exact(dow) ==
    IF \E k \in 1..7 : dow \in DayNames[k]
    THEN Ok((CHOOSE k \in 1..7 : dow \in DayNames[k]) - 1)
    ELSE Err("invalid day of week")

\* parse_dow
parse_dow(dow) ==
    LET dow_l == to_ascii_lowercase(dow) IN
    IF \E k \in 1..7 : dow_l \in DayNames[k]
    THEN Ok((CHOOSE k \in 1..7 : dow_l \in DayNames[k]) - 1)
    ELSE Err("invalid day of week")

\* the days from first to second, or the error of either
dow_span(first, second) ==
    IF ~first.ok THEN first
    ELSE IF ~second.ok THEN second
    ELSE IF second.v < first.v
         THEN Err("InvalidRange")
         ELSE Ok(step_by(first.v, second.v, 1))

\* parse_dow_range once DOW_RANGE_RE has been applied
dow_range_of(caps) ==
    IF ~caps.ok THEN caps ELSE dow_span(parse_dow(caps.v[1]), parse_dow(caps.v[2]))

\* parse_dow_range
parse_dow_range(dow_range) == dow_range_of(DOW_RANGE_RE(dow_range))

\* parse_dow_v
parse_dow_v(dow) == value_of(parse_dow(dow))

\* parse_range_or_dow
parse_range_or_dow(dow_str) ==
    IF DOW_RANGE_RE(dow_str).ok
    THEN parse_dow_range(dow_str)
    ELSE parse_dow_v(dow_str)

\* parse_day_of_week
parse_day_of_week(dowish) ==
    IF dowish = <<"*">>
    THEN Ok(All)
    ELSE time_chunk_of(collect_sorted(
            [i \in 1..Len(split(dowish, ",")) |->
                parse_range_or_dow(split(dowish, ",")[i])]))

\* Realtime::default, and what the builder starts from
RealtimeDefault ==
    [day_of_week |-> All, year |-> YearAll, month |-> All, day |-> All,
     hour |-> All, minute |-> All, second |-> All]

\* the Realtime of a mnemonic: the chain of comparisons of parse_calendar
mnemonic(name) ==
    LET midnight == [RealtimeDefault EXCEPT !.hour = from_u8(0),
                                            !.minute = from_u8(0),
                                            !.second = from_u8(0)]
    IN CASE name = MINUTELY ->
                [RealtimeDefault EXCEPT !.second = from_u8(0)]
         [] name = HOURLY ->
                [RealtimeDefault EXCEPT !.minute = from_u8(0), !.second = from_u8(0)]
         [] name = DAILY -> midnight
         [] name = WEEKLY -> [midnight EXCEPT !.day_of_week = from_u8(1)]
         [] name = MONTHLY -> [midnight EXCEPT !.day = from_u8(1)]
         [] name = QUARTERLY ->
                [midnight EXCEPT !.month = from_vec(<<1, 4, 7, 10>>), !.day = from_u8(1)]
         [] name = SEMIANUALLY ->
                [midnight EXCEPT !.month = from_vec(<<1, 7>>), !.day = from_u8(1)]
         [] name = YEARLY ->
                [midnight EXCEPT !.month = from_u8(1), !.day = from_u8(1)]

\* the Realtime built of the day of week, the date and the time parsed, or
\* the first error among them
realtime_of(fields) ==
    IF ~fields.ok
    THEN [ok |-> FALSE, err |-> fields.err, rt |-> RealtimeDefault]
    ELSE [ok |-> TRUE, err |-> "",
          rt |-> [day_of_week |-> fields.v[1],
                  year |-> fields.v[2][1], month |-> fields.v[2][2],
                  day |-> fields.v[2][3],
                  hour |-> fields.v[3][1], minute |-> fields.v[3][2],
                  second |-> fields.v[3][3]]]

\* parse_calendar once the string has been split at white space
calendar_of(parts, rng) ==
    IF Len(parts) = 1 /\ \E m \in Mnemonics : parts[1] = chars(m)
    THEN [ok |-> TRUE, err |-> "",
          rt |-> mnemonic(CHOOSE m \in Mnemonics : parts[1] = chars(m))]
    ELSE IF Len(parts) \notin 1..3
         THEN [ok |-> FALSE, err |-> "InvalidCalendar", rt |-> RealtimeDefault]
         ELSE realtime_of(collect(
                << parse_day_of_week(IF Len(parts) = 3 THEN parts[1] ELSE <<"*">>),
                   parse_date(IF Len(parts) = 3 THEN parts[2]
                              ELSE IF Len(parts) = 2 THEN parts[1]
                              ELSE <<"*", "-", "*", "-", "*">>, rng),
                   parse_hms(parts[Len(parts)], rng) >>))

\* parse_calendar: Ok with the Realtime as rt, or Err
parse_calendar(calendar, rng) == calendar_of(split_whitespace(chars(calendar)), rng)

\* what parse_calendar makes of each calendar without a random value
Parsed == [calendar \in Calendars |-> parse_calendar(calendar, thread_rng(0))]

\* the days of the week, the first of January 1970 being a Thursday
Weekdays ==
    <<"Monday", "Tuesday", "Wednesday", "Thursday", "Friday", "Saturday", "Sunday">>

\* the OffsetDateTime t seconds after 1970-01-01 00:00:00 UTC, by what
\* should_run reads of it: weekday(), year(), month(), day(), hour(),
\* minute(), second()
date_time(t) ==
    LET days == t \div 86400
        z == days + 719468
        era == z \div 146097
        doe == z - era * 146097
        yoe == (doe - doe \div 1460 + doe \div 36524 - doe \div 146096) \div 365
        doy == doe - (365 * yoe + yoe \div 4 - yoe \div 100)
        mp == (5 * doy + 2) \div 153
        month == IF mp < 10 THEN mp + 3 ELSE mp - 9
    IN [weekday |-> Weekdays[((days + 3) % 7) + 1],
        year |-> yoe + era * 400 + (IF month <= 2 THEN 1 ELSE 0),
        month |-> month,
        day |-> doy - (153 * mp + 2) \div 5 + 1,
        hour |-> (t \div 3600) % 24,
        minute |-> (t \div 60) % 60,
        second |-> t % 60]

\* the number of a weekday counted from Monday = 0
number_days_from_monday(given) ==
    (CHOOSE k \in 1..7 : Weekdays[k] = given) - 1

\* given_u of DayOfWeek::matches: Monday is 1, Saturday 6 and Sunday 0
weekday_number(given) ==
    ((CHOOSE k \in 1..7 : Weekdays[k] = given)) % 7

\* DayOfWeek::matches
dow_matches(self, given) ==
    self.all \/ \E k \in 1..Len(self.of) : self.of[k] = weekday_number(given)

\* Year::matches, for the kinds parse_year gives
year_matches(self, given) ==
    CASE self.kind = "All" -> TRUE
      [] self.kind = "Range" -> self.lo <= given /\ given <= self.hi
      [] self.kind = "Year" -> self.lo = given

\* Month::matches, Day::matches, Hour::matches, Minute::matches and
\* Second::matches
matches(self, given) ==
    self.all \/ \E k \in 1..Len(self.of) : self.of[k] = given

\* Realtime::should_run without the day of the week
should_run_any_day(realtime, t) ==
    LET now_utc == date_time(t) IN
    /\ year_matches(realtime.year, now_utc.year)
    /\ matches(realtime.month, now_utc.month)
    /\ matches(realtime.day, now_utc.day)
    /\ matches(realtime.hour, now_utc.hour)
    /\ matches(realtime.minute, now_utc.minute)
    /\ matches(realtime.second, now_utc.second)

\* Realtime::should_run at the time t seconds after 1970-01-01 00:00:00 UTC
should_run(realtime, t) ==
    LET now_utc == date_time(t) IN
    /\ dow_matches(realtime.day_of_week, now_utc.weekday)
    /\ year_matches(realtime.year, now_utc.year)
    /\ matches(realtime.month, now_utc.month)
    /\ matches(realtime.day, now_utc.day)
    /\ matches(realtime.hour, now_utc.hour)
    /\ matches(realtime.minute, now_utc.minute)
    /\ matches(realtime.second, now_utc.second)

(***************************************************************************)
(* The scheduler of the worker client (pudw/src/actor/mod.rs).  The clock  *)
(* counts whole seconds and a timer fires in the second it is due: the     *)
(* clock waits for the timers that are due.  ctx.run_later(d) fires once,  *)
(* d after the call; ctx.run_interval(d) fires d after the call and every  *)
(* d from then on.  The wall clock reads second 0 when the Worker starts.  *)
(* The running flag and the executors' commands are SpecJob's.             *)
(***************************************************************************)
\* the schedule lists an Initialize reply may carry
ScheduleLists ==
    { << Monotonic(1, 2, <<"ls">>) >>,
      << Realtime("*:*:*", <<"ls">>), Realtime("*:*:*", <<"df">>),
         Realtime("*:*:2", <<"up">>), Realtime("a b c d", <<"ls">>) >> }

\* a future of the actor's context
Timer(role, due, every, cmds, parent) ==
    [role |-> role, state |-> "armed", armed_at |-> clk, due |-> due,
     every |-> every, cmds |-> cmds, parent |-> parent]

\* ctx.run_interval taken to fire at once and then every dur
run_interval_at_once(role, dur, cmds, parent) ==
    Timer(role, clk, dur, cmds, parent)

\* ctx.run_interval(dur, ..)
run_interval(role, dur, cmds, parent) ==
    Timer(role, clk + dur, dur, cmds, parent)

\* a future is spawned and its handle pushed on fut_handles
Spawned(w, timer) ==
    [w EXCEPT !.timers = Append(@, timer),
              !.fut_handles = Append(@, Len(w.timers) + 1)]

\* Worker::start_schedules for the schedules from the i-th on, with
\* launch_monotonic, store_realtime and start_rt_monitor
RECURSIVE start_schedules(_, _, _, _)
start_schedules(w, schedules, i, has_realtime) ==
    IF i > Len(schedules)
    THEN IF has_realtime THEN Spawned(w, run_interval("rt", 1, <<>>, 0)) ELSE w
    ELSE LET schedule == schedules[i] IN
         IF schedule.type = "Monotonic"
         THEN start_schedules(
                Spawned(w, Timer("later", clk + schedule.on_boot_sec,
                                 schedule.on_unit_active_sec, schedule.cmds, 0)),
                schedules, i + 1, has_realtime)
         ELSE LET parsed == Parsed[schedule.on_calendar]
                  stored == IF parsed.ok
                            THEN [w EXCEPT !.rt = Insert(@, parsed.rt, schedule.cmds)]
                            ELSE w
              IN start_schedules(stored, schedules, i + 1, TRUE)

\* Worker::stop_schedules: every handle is popped and its future cancelled
\* (ctx.cancel_future); a cancelled future keeps no field
stop_schedules(w) ==
    [rt |-> EmptyMap,
     fut_handles |-> <<>>,
     timers |-> [h \in 1..Len(w.timers) |->
                    IF w.timers[h].state = "armed"
                       /\ \E i \in 1..Len(w.fut_handles) : w.fut_handles[i] = h
                    THEN [state |-> "cancelled"]
                    ELSE w.timers[h]]]

\* Worker::handle_binary, ServerToWorkerClient::Initialize(commands, schedules)
SchedInitialize ==
    /\ asked.initialize > 0
    /\ \E schedules \in ScheduleLists :
        LET w == start_schedules([rt |-> rt, fut_handles |-> fut_handles, timers |-> timers], schedules, 1, FALSE) IN
        /\ installed' = schedules
        /\ rt' = w.rt
        /\ fut_handles' = w.fut_handles
        /\ timers' = w.timers
    /\ asked' = [asked EXCEPT !.initialize = @ - 1]
    /\ UNCHANGED <<clk, started>>
    /\ SchedFrame

\* Worker::handle_binary, ServerToWorkerClient::Reload: stop_schedules, then
\* initialize writes the Initialize request
SchedReload ==
    /\ asked.reloads < MaxReloads
    /\ LET w == stop_schedules([rt |-> rt, fut_handles |-> fut_handles, timers |-> timers]) IN
        /\ rt' = w.rt
        /\ fut_handles' = w.fut_handles
        /\ timers' = w.timers
    /\ asked' = [initialize |-> asked.initialize + 1, reloads |-> asked.reloads + 1]
    /\ UNCHANGED <<clk, installed, started>>
    /\ SchedFrame

\* a timer is due
Due(h) == timers[h].state = "armed" /\ timers[h].due <= clk

\* an executor thread is started: thread::spawn
Executor(h, cmds) == [at |-> clk, timer |-> h, cmds |-> cmds]

\* the closure of run_later in launch_monotonic: the interval is started and
\* the command list run
LaterFires(h) ==
    /\ Due(h)
    /\ timers[h].role = "later"
    /\ LET t == timers[h]
           w == Spawned([rt |-> rt, fut_handles |-> fut_handles,
                          timers |-> [timers EXCEPT ![h].state = "done"]],
                        run_interval("interval", t.every, t.cmds, h))
       IN /\ timers' = w.timers
          /\ fut_handles' = w.fut_handles
          /\ started' = started \cup {Executor(h, t.cmds)}
    /\ UNCHANGED <<clk, installed, rt, asked>>
    /\ SchedFrame

\* the closure of run_interval in launch_monotonic: the command list is run
IntervalFires(h) ==
    /\ Due(h)
    /\ timers[h].role = "interval"
    /\ timers' = [timers EXCEPT ![h].due = @ + timers[h].every]
    /\ started' = started \cup {Executor(h, timers[h].cmds)}
    /\ UNCHANGED <<clk, installed, rt, fut_handles, asked>>
    /\ SchedFrame

\* the closure of run_interval in start_rt_monitor: every entry of rt that
\* should run now gets an executor
RtFires(h) ==
    /\ Due(h)
    /\ timers[h].role = "rt"
    /\ timers' = [timers EXCEPT ![h].due = @ + timers[h].every]
    /\ started' = started \cup
            {Executor(h, rt[r]) : r \in {x \in DOMAIN rt : should_run(x, clk)}}
    /\ UNCHANGED <<clk, installed, rt, fut_handles, asked>>
    /\ SchedFrame

\* a second passes
ClockTick ==
    /\ clk < MaxClock
    /\ \A h \in 1..Len(timers) : ~Due(h)
    /\ clk' = clk + 1
    /\ UNCHANGED <<installed, rt, fut_handles, timers, started, asked>>
    /\ SchedFrame

\* the Worker as started: Actor::started calls initialize
SchedInit ==
    /\ clk = 0
    /\ installed = <<>>
    /\ rt = EmptyMap
    /\ fut_handles = <<>>
    /\ timers = <<>>
    /\ started = {}
    /\ asked = [initialize |-> 1, reloads |-> 0]

SchedNext ==
    \/ SchedInitialize
    \/ SchedReload
    \/ \E h \in 1..Len(timers) : LaterFires(h)
    \/ \E h \in 1..Len(timers) : IntervalFires(h)
    \/ \E h \in 1..Len(timers) : RtFires(h)
    \/ ClockTick

(***************************************************************************)
(* The heartbeat (Session::hb in puds/src/worker/session.rs and            *)
(* puds/src/manager/session.rs, Worker::hb in pudw/src/actor/mod.rs,       *)
(* CommandLine::hb in pudcli/src/actor/mod.rs) and the frame handlers as   *)
(* far as they touch hb.  The clock counts whole seconds; the closure of   *)
(* run_interval runs at every multiple of HEARTBEAT_INTERVAL, on time.     *)
(***************************************************************************)
ServerSessions == {"WorkerSession", "ManagerSession"}
Clients == {"Worker", "CommandLine"}
Peers == ServerSessions \cup Clients

\* the frames a peer's StreamHandler dispatches
FrameKinds == {"Ping", "Pong", "Text", "Binary", "Close",
               "FirstText", "FirstBinary", "Continue", "Last"}

\* handle_binary sets hb in the two sessions, and in neither client
handle_binary_refreshes(p) == p \in ServerSessions

\* only a ping sets hb
refreshes_ping_only(p, kind) == kind = "Ping"

\* whether the handler of a frame of this kind sets hb to Instant::now()
refreshes(p, kind) ==
    CASE kind \in {"Ping", "Pong"} -> TRUE
      [] kind = "Binary" -> handle_binary_refreshes(p)
      \* handle_continuation calls handle_binary on Last
      [] kind = "Last" -> handle_binary_refreshes(p)
      [] OTHER -> FALSE

\* whether the handler calls ctx.stop(): handle_close, and the CommandLine's
\* handle_binary on the answer to its request
stops(p, kind, answer) ==
    \/ kind = "Close"
    \/ p = "CommandLine" /\ kind = "Binary" /\ answer

\* the timeout test with twice the time allowed
timed_out_late(t, h) == t - h > 2 * CLIENT_TIMEOUT

\* Instant::now().duration_since(act.hb) > CLIENT_TIMEOUT
timed_out(t, h) == t - h > CLIENT_TIMEOUT

\* StreamHandler::handle of one inbound frame
HandleFrame(kind, answer) ==
    /\ actor = "running"
    /\ hb' = IF refreshes(peer, kind) THEN now ELSE hb
    /\ stale' = IF hb' = now THEN {} ELSE stale \cup {kind}
    /\ silent' = (silent \/ now - lastInbound >= CLIENT_TIMEOUT)
    /\ lastInbound' = now
    /\ actor' = IF stops(peer, kind, answer) THEN "stopping" ELSE "running"
    /\ UNCHANGED <<peer, now, ticked, timedOut, disconnects>>
    /\ HbFrame

\* the closure of run_interval(HEARTBEAT_INTERVAL, ..) in hb(): on a timeout
\* a session sends Disconnect, and every peer stops; otherwise a ping is sent
HbInterval ==
    /\ actor = "running"
    /\ now > 0
    /\ now % HEARTBEAT_INTERVAL = 0
    /\ ticked < now
    /\ ticked' = now
    /\ IF timed_out(now, hb)
       THEN /\ timedOut' = TRUE
            /\ disconnects' = IF peer \in ServerSessions THEN disconnects + 1
                                                         ELSE disconnects
            /\ actor' = "stopping"
       ELSE UNCHANGED <<timedOut, disconnects, actor>>
    /\ UNCHANGED <<peer, now, hb, lastInbound, silent, stale>>
    /\ HbFrame

\* Actor::stopping: a session sends Disconnect (again, after a timeout)
Stopping ==
    /\ actor = "stopping"
    /\ actor' = "stopped"
    /\ disconnects' = IF peer \in ServerSessions THEN disconnects + 1 ELSE disconnects
    /\ UNCHANGED <<peer, now, hb, ticked, timedOut, lastInbound, silent, stale>>
    /\ HbFrame

\* a second passes; the closure due at this second has run
Second ==
    /\ actor = "running"
    /\ now < MaxTime
    /\ (now > 0 /\ now % HEARTBEAT_INTERVAL = 0) => ticked = now
    /\ now' = now + 1
    /\ UNCHANGED <<peer, hb, ticked, actor, timedOut, disconnects, lastInbound,
                   silent, stale>>
    /\ HbFrame

\* the peer as built by its endpoint or runtime: hb = origin = Instant::now()
HbInit ==
    /\ peer \in Peers
    /\ now = 0
    /\ hb = 0
    /\ ticked = 0
    /\ actor = "running"
    /\ timedOut = FALSE
    /\ disconnects = 0
    /\ lastInbound = 0
    /\ silent = FALSE
    /\ stale = {}

HbNext ==
    \/ \E kind \in FrameKinds, answer \in BOOLEAN : HandleFrame(kind, answer)
    \/ HbInterval
    \/ Stopping
    \/ Second

(***************************************************************************)
(* One job of the worker client: run_cmd (pudw/src/actor/mod.rs) on its    *)
(* executor thread, the two reader threads it spawns, the child process,   *)
(* the three channels and their forwarding tasks (pudw/src/runtime/mod.rs) *)
(* and the Worker's handler that fills the outbound queue.                 *)
(***************************************************************************)
Streams == {"stdout", "stderr"}
Channels == {"stdout", "stderr", "status"}

\* Uuid::new_v4() of the one job followed
command_id == 1

Stdout(id, line) == [type |-> "Stdout", id |-> id, line |-> line]
Stderr(id, line) == [type |-> "Stderr", id |-> id, line |-> line]
JobStatus(id, code) == [type |-> "Status", id |-> id, code |-> code]

\* how many of the messages are lines of output
Lines(q) == Cardinality({i \in 1..Len(q) : q[i].type \in {"Stdout", "Stderr"}})

\* the lines the child has written so far, wherever they are by now
Written ==
    Len(pipe["stdout"]) + Len(pipe["stderr"]) + Len(chan["stdout"]) + Len(chan["stderr"])
        + Lines(inbox) + Lines(stdout_queue)

\* run_cmd up to its loop: the shell is looked up, the child spawned with
\* both pipes, and a reader thread started on each
RunCmd(shell, spawned) ==
    /\ exec = "ready"
    /\ IF shell /\ spawned
       THEN /\ exec' = "waiting"
            /\ child' = "running"
            /\ reader' = [st \in Streams |-> "reading"]
       ELSE /\ exec' = "done"
            /\ UNCHANGED <<child, reader>>
    /\ UNCHANGED <<pipe, chan, inbox, stdout_queue, running_pair, sinceReload>>
    /\ JobFrame

\* the child writes a line to one of its pipes
ChildWrite(st) ==
    /\ child = "running"
    /\ Written < MaxLines
    /\ pipe' = [pipe EXCEPT ![st] = Append(@, Written + 1)]
    /\ UNCHANGED <<exec, child, reader, chan, inbox, stdout_queue, running_pair, sinceReload>>
    /\ JobFrame

\* the child ends by itself: with an exit code, or by a signal without one
ChildExit(how) ==
    /\ child = "running"
    /\ child' = how
    /\ UNCHANGED <<exec, pipe, reader, chan, inbox, stdout_queue, running_pair, sinceReload>>
    /\ JobFrame

\* a reader thread: one turn of `for line in reader.lines()`
ReaderLine(st) ==
    /\ reader[st] = "reading"
    /\ pipe[st] # <<>>
    /\ chan' = [chan EXCEPT ![st] =
                    Append(@, IF st = "stdout" THEN Stdout(command_id, Head(pipe[st]))
                                               ELSE Stderr(command_id, Head(pipe[st])))]
    /\ pipe' = [pipe EXCEPT ![st] = Tail(@)]
    /\ UNCHANGED <<exec, child, reader, inbox, stdout_queue, running_pair, sinceReload>>
    /\ JobFrame

\* a reader thread finds the end of its pipe once the child is gone
ReaderEnd(st) ==
    /\ reader[st] = "reading"
    /\ pipe[st] = <<>>
    /\ child # "running"
    /\ reader' = [reader EXCEPT ![st] = "done"]
    /\ UNCHANGED <<exec, child, pipe, chan, inbox, stdout_queue, running_pair, sinceReload>>
    /\ JobFrame

\* the executor's loop, child.try_wait() = Ok(Some(status)): Status is sent
\* when the status has a code, and the loop ends
TryWaitExited ==
    /\ exec = "waiting"
    /\ child \in {"exited", "signaled"}
    /\ chan' = IF child = "exited"
               THEN [chan EXCEPT !["status"] = Append(@, JobStatus(command_id, 0))]
               ELSE chan
    /\ exec' = "done"
    /\ UNCHANGED <<child, pipe, reader, inbox, stdout_queue, running_pair, sinceReload>>
    /\ JobFrame

\* the executor's loop, child.try_wait() = Ok(None): the lock is taken and
\* cvar.wait_timeout(running, 500 ms) entered, which gives the lock up; the
\* flag is not looked at before the wait
TryWaitNone ==
    /\ exec = "waiting"
    /\ child = "running"
    /\ exec' = "in_wait"
    /\ UNCHANGED <<child, pipe, reader, chan, inbox, stdout_queue, running_pair, sinceReload>>
    /\ JobFrame

\* cvar.wait_timeout returns, notified or timed out, with the lock held
\* again: with the flag false the child is killed (which leaves a child
\* that has ended as it is) and the loop ends, else the loop goes round
WaitReturns ==
    /\ exec = "in_wait"
    /\ IF ~running_pair
       THEN /\ child' = IF child = "running" THEN "killed" ELSE child
            /\ exec' = "done"
       ELSE /\ exec' = "waiting"
            /\ UNCHANGED child
    /\ sinceReload' = IF sinceReload = "reloaded" THEN "waited" ELSE sinceReload
    /\ UNCHANGED <<pipe, reader, chan, inbox, stdout_queue, running_pair>>
    /\ JobFrame

\* one of the three tasks of the runtime: rx.recv().await, addr.do_send(..)
Forward(ch) ==
    /\ chan[ch] # <<>>
    /\ inbox' = Append(inbox, Head(chan[ch]))
    /\ chan' = [chan EXCEPT ![ch] = Tail(@)]
    /\ UNCHANGED <<exec, child, pipe, reader, stdout_queue, running_pair, sinceReload>>
    /\ JobFrame

\* impl Handler<WorkerClientToWorkerSession> for Worker: push_back
HandleJobMessage ==
    /\ inbox # <<>>
    /\ stdout_queue' = Append(stdout_queue, Head(inbox))
    /\ inbox' = Tail(inbox)
    /\ UNCHANGED <<exec, child, pipe, reader, chan, running_pair, sinceReload>>
    /\ JobFrame

\* Worker::handle_binary on Reload: stop_schedules sets the flag false and
\* notifies the condvar
StopSchedules ==
    /\ running_pair
    /\ running_pair' = FALSE
    /\ sinceReload' = IF child = "running" /\ sinceReload = "none"
                      THEN "reloaded" ELSE sinceReload
    /\ UNCHANGED <<exec, child, pipe, reader, chan, inbox, stdout_queue>>
    /\ JobFrame

\* Worker::handle_binary on Initialize: the flag is set true
SetRunning ==
    /\ ~running_pair
    /\ running_pair' = TRUE
    /\ UNCHANGED <<exec, child, pipe, reader, chan, inbox, stdout_queue, sinceReload>>
    /\ JobFrame

\* a worker that is initialized and about to run a command
JobInit ==
    /\ exec = "ready"
    /\ child = "none"
    /\ pipe = [st \in Streams |-> <<>>]
    /\ reader = [st \in Streams |-> "none"]
    /\ chan = [ch \in Channels |-> <<>>]
    /\ inbox = <<>>
    /\ stdout_queue = <<>>
    /\ running_pair = TRUE
    /\ sinceReload = "none"

JobNext ==
    \/ \E shell \in BOOLEAN, spawned \in BOOLEAN : RunCmd(shell, spawned)
    \/ \E st \in Streams : ChildWrite(st)
    \/ \E how \in {"exited", "signaled"} : ChildExit(how)
    \/ \E st \in Streams : ReaderLine(st)
    \/ \E st \in Streams : ReaderEnd(st)
    \/ TryWaitExited
    \/ TryWaitNone
    \/ WaitReturns
    \/ \E ch \in Channels : Forward(ch)
    \/ HandleJobMessage
    \/ StopSchedules
    \/ SetRunning

(***************************************************************************)
(* One executor thread of the worker client: the closure launch_monotonic  *)
(* gives to thread::spawn, `for cmd_name in &cmds_thread`, with run_cmd    *)
(* for each name the command table holds.  The readers of the children and *)
(* the channels for their lines are those of the job above.                *)
(***************************************************************************)
\* the command table the thread was given: name -> command line
commands_thread == [ls |-> "ls /", df |-> "df -h"]

\* the names a command list is written with
CmdNames == {"ls", "df", "gone"}
CmdLists == UNION {[1..n -> CmdNames] : n \in 1..MaxCmds}

\* how many children the thread has spawned
Spawned_children(cs) == Cardinality({i \in 1..Len(cs) : cs[i].child # "none"})

\* the table taken to hold every name
get_is_some_always(commands, cmd_name) == TRUE

\* if let Some(cmd) = commands_thread.get(cmd_name)
get_is_some(commands, cmd_name) == cmd_name \in DOMAIN commands

\* one turn of the for loop, up to the loop of run_cmd: a name the table
\* does not hold is passed over; run_cmd looks the shell up and spawns the
\* child, and returns at once when either fails
ForCmd(shell, spawned) ==
    /\ thread = "for"
    /\ cmd_at <= Len(cmds_thread)
    /\ IF get_is_some(commands_thread, cmds_thread[cmd_at])
       THEN IF shell /\ spawned
            THEN /\ children' = Append(children, [name |-> cmds_thread[cmd_at], child |-> "running"])
                 /\ thread' = "waiting"
                 /\ UNCHANGED cmd_at
            ELSE /\ children' = Append(children, [name |-> cmds_thread[cmd_at], child |-> "none"])
                 /\ cmd_at' = cmd_at + 1
                 /\ UNCHANGED thread
       ELSE /\ cmd_at' = cmd_at + 1
            /\ UNCHANGED <<children, thread>>
    /\ UNCHANGED <<cmds_thread, reloaded, chan, running_pair>>
    /\ ThreadFrame

\* the child of the call under way ends by itself
ThreadChildExit(how) ==
    /\ thread \in {"waiting", "in_wait"}
    /\ children[Len(children)].child = "running"
    /\ children' = [children EXCEPT ![Len(children)].child = how]
    /\ UNCHANGED <<cmds_thread, cmd_at, thread, reloaded, chan, running_pair>>
    /\ ThreadFrame

\* run_cmd's loop, child.try_wait(): with Ok(Some(status)) Status is sent
\* when the status has a code, run_cmd returns and the for loop goes on;
\* with Ok(None) cvar.wait_timeout is entered
ThreadTryWait ==
    /\ thread = "waiting"
    /\ IF children[Len(children)].child = "running"
       THEN /\ thread' = "in_wait"
            /\ UNCHANGED <<cmd_at, chan>>
       ELSE /\ chan' = IF children[Len(children)].child = "exited"
                       THEN [chan EXCEPT !["status"] = Append(@, JobStatus(Len(children), 0))]
                       ELSE chan
            /\ thread' = "for"
            /\ cmd_at' = cmd_at + 1
    /\ UNCHANGED <<cmds_thread, children, reloaded, running_pair>>
    /\ ThreadFrame

\* cvar.wait_timeout returns: with the flag false the child is killed and
\* run_cmd returns to the for loop, which goes on to the next name
ThreadWaitReturns ==
    /\ thread = "in_wait"
    /\ IF ~running_pair
       THEN /\ children' = [children EXCEPT ![Len(children)].child =
                                IF @ = "running" THEN "killed" ELSE @]
            /\ thread' = "for"
            /\ cmd_at' = cmd_at + 1
       ELSE /\ thread' = "waiting"
            /\ UNCHANGED <<children, cmd_at>>
    /\ UNCHANGED <<cmds_thread, reloaded, chan, running_pair>>
    /\ ThreadFrame

\* Worker::handle_binary on Reload: stop_schedules sets the flag false and
\* notifies the condvar; the thread holds none of the handles it cancels
ThreadReload ==
    /\ running_pair
    /\ running_pair' = FALSE
    /\ reloaded' = IF reloaded = -1 THEN Spawned_children(children) ELSE reloaded
    /\ UNCHANGED <<cmds_thread, cmd_at, thread, children, chan>>
    /\ ThreadFrame

\* Worker::handle_binary on Initialize: the flag is set true
ThreadInitialize ==
    /\ ~running_pair
    /\ running_pair' = TRUE
    /\ UNCHANGED <<cmds_thread, cmd_at, thread, children, reloaded, chan>>
    /\ ThreadFrame

ThreadStart ==
    /\ cmd_at = 1
    /\ thread = "for"
    /\ children = <<>>
    /\ reloaded = -1

\* a thread that is not followed
ThreadRest == ThreadStart /\ cmds_thread = <<"ls">>

\* a thread a timer has just started with the list of its schedule
ThreadInit == ThreadStart /\ cmds_thread \in CmdLists

ThreadNext ==
    \/ \E shell \in BOOLEAN, spawned \in BOOLEAN : ForCmd(shell, spawned)
    \/ \E how \in {"exited", "signaled"} : ThreadChildExit(how)
    \/ ThreadTryWait
    \/ ThreadWaitReturns
    \/ ThreadReload
    \/ ThreadInitialize

\* the session of the worker handles the frame the drainer wrote next: the
\* messages of the queue arrive in the order they were put on it
SessionJobFrame ==
    /\ sess["w1"].state = "running"
    /\ Len(seen) < Len(stdout_queue)
    /\ LET after == session_handle_job(jobs, sess["w1"], stdout_queue[Len(seen) + 1]) IN
        /\ jobs' = after.jobs
        /\ archive' = archive \o after.stored
        /\ seen' = Append(seen, stdout_queue[Len(seen) + 1])
    /\ UNCHANGED <<threadVars, routerVars, hbVars, jobVars, schedVars, queueVars, frameVars, cliVars, calVars>>

SessionNext == JobNext \/ SessionJobFrame

(***************************************************************************)
(* The outbound queue of the worker client: the Worker's handler of         *)
(* WorkerClientToWorkerSession fills stdout_queue, the interval of          *)
(* queue_monitor supervises it and the interval of start_stdout_drain       *)
(* writes its front to the websocket.  Time is in whole seconds; the        *)
(* drainer, which runs every millisecond, empties the queue before the      *)
(* clock moves on.                                                          *)
(***************************************************************************)
\* the messages the executors hand to the Worker, in the order they do
QueueMessages ==
    << Stdout(command_id, "ls /"), Stderr(command_id, LongCmd), JobStatus(command_id, 0) >>

\* the length of bincode::serialize(msg): a u32 tag, the Uuid as 8 + 16
\* bytes, a String as 8 bytes and its own, an i32
serialized_size(msg) ==
    CASE msg.type \in {"Stdout", "Stderr"} -> 4 + 24 + 8 + StrBytes(msg.line)
      [] msg.type = "Status" -> 4 + 24 + 4
      [] OTHER -> 4

\* bincode::serialize
serialize(msg) == << [msg |-> msg, lo |-> 0, hi |-> serialized_size(msg)] >>

\* VecDeque::pop_front taken to leave the front in the queue
pop_front_kept(q) == [front |-> Head(q), rest |-> q]

\* VecDeque::pop_front on a queue that is not empty
pop_front(q) == [front |-> Head(q), rest |-> Tail(q)]

\* the supervisor taken to start a drainer whenever the queue is not empty
monitor_starts_again(queue, running) == queue # <<>>

\* queue_monitor, the condition of its first branch
monitor_starts(queue, running) == queue # <<>> /\ ~running

\* the supervisor taken to cancel a drainer that has been idle for 3 s
monitor_cancels_early(queue, running, idle) ==
    queue = <<>> /\ running /\ idle > 3

\* queue_monitor, the condition of its second branch
monitor_cancels(queue, running, idle) ==
    queue = <<>> /\ running /\ idle > QUEUE_IDLE_TIMEOUT

\* impl Handler<WorkerClientToWorkerSession> for Worker
QueuePush ==
    /\ Len(pushed) < Len(QueueMessages)
    /\ LET msg == QueueMessages[Len(pushed) + 1] IN
        /\ stdout_queue' = Append(stdout_queue, serialize(msg))
        /\ pushed' = Append(pushed, msg)
    /\ head_since' = IF stdout_queue = <<>> THEN instant ELSE head_since
    /\ UNCHANGED <<instant, queue_running, stdout_handle, drainer, stdout_last,
                   monitor_due, wire, tick>>
    /\ QueueFrame

\* the closure of start_stdout_drain
Drain ==
    /\ drainer
    /\ stdout_queue # <<>>
    /\ LET popped == pop_front(stdout_queue) IN
        /\ stdout_queue' = popped.rest
        /\ wire' = Append(wire, Binary(popped.front))
        /\ head_since' = IF popped.rest = <<>> THEN 0 ELSE head_since
    /\ stdout_last' = instant
    /\ UNCHANGED <<instant, queue_running, stdout_handle, drainer, monitor_due,
                   pushed, tick>>
    /\ QueueFrame

\* the closure of queue_monitor
MonitorTick ==
    /\ instant = monitor_due
    /\ monitor_due' = monitor_due + QUEUE_MONITOR_INTERVAL
    /\ LET idle == instant - stdout_last
           found == [at |-> instant, empty |-> stdout_queue = <<>>,
                     running |-> queue_running, idle |-> idle]
       IN IF monitor_starts(stdout_queue, queue_running)
          THEN /\ queue_running' = TRUE
               /\ drainer' = TRUE
               /\ stdout_handle' = "Some"
               /\ tick' = [found EXCEPT !.idle = 0] @@ [did |-> "start"]
          ELSE IF monitor_cancels(stdout_queue, queue_running, idle)
                  /\ stdout_handle = "Some"
          THEN /\ queue_running' = FALSE
               /\ drainer' = FALSE
               /\ stdout_handle' = "None"
               /\ tick' = found @@ [did |-> "cancel"]
          ELSE /\ UNCHANGED <<queue_running, drainer, stdout_handle>>
               /\ tick' = [found EXCEPT !.idle = 0] @@ [did |-> "none"]
    /\ UNCHANGED <<instant, stdout_queue, stdout_last, wire, pushed, head_since>>
    /\ QueueFrame

\* Worker::handle_binary, ServerToWorkerClient::Reload, as far as the queue
\* goes: stop_schedules cancels the supervisor, whose handle is one of
\* fut_handles, and initialize starts it again; the drainer's handle is not
\* one of them
QueueReload ==
    /\ monitor_due # instant + QUEUE_MONITOR_INTERVAL
    /\ monitor_due' = instant + QUEUE_MONITOR_INTERVAL
    /\ UNCHANGED <<instant, stdout_queue, queue_running, stdout_handle, drainer,
                   stdout_last, wire, pushed, head_since, tick>>
    /\ QueueFrame

\* a second passes, once the supervisor and the drainer have run what is due
QueueSecond ==
    /\ instant < MaxIdle
    /\ instant < monitor_due
    /\ ~(drainer /\ stdout_queue # <<>>)
    /\ instant' = instant + 1
    /\ UNCHANGED <<stdout_queue, queue_running, stdout_handle, drainer, stdout_last,
                   monitor_due, wire, pushed, head_since, tick>>
    /\ QueueFrame

\* Worker::started: the builder's defaults, and initialize has started the
\* supervisor
QueueInit ==
    /\ instant = 0
    /\ queue_running = FALSE
    /\ stdout_handle = "None"
    /\ drainer = FALSE
    /\ stdout_last = 0
    /\ monitor_due = QUEUE_MONITOR_INTERVAL
    /\ wire = <<>>
    /\ pushed = <<>>
    /\ head_since = 0
    /\ tick = [at |-> 0, empty |-> TRUE, running |-> FALSE, idle |-> 0, did |-> "none"]

QueueNext ==
    \/ QueuePush
    \/ Drain
    \/ MonitorTick
    \/ QueueReload
    \/ QueueSecond

(***************************************************************************)
(* The stream handler of one peer, frame by frame: StreamHandler::handle   *)
(* and the handle_* functions of the worker session, the manager session,  *)
(* the worker client and the command line.  The other side sends whole     *)
(* payloads or continuation sequences of them, and may send pings, pongs,  *)
(* text, a stray FirstText, a payload that does not decode, or Close in    *)
(* between.                                                                *)
(***************************************************************************)
\* the session whose frames are followed
FrameSelf == [id |-> 1, name |-> "alpha"]

\* the variants of the type a peer's handle_binary decodes
Variants(p) ==
    CASE p = "WorkerSession" -> {"Initialize", "JobStart", "JobEnd", "Stdout", "Stderr", "Status"}
      [] p = "ManagerSession" -> {"Initialize", "Reload", "ListWorkers", "Schedules", "Query"}
      [] p = "Worker" -> {"Status", "Initialize", "Reload"}
      [] p = "CommandLine" -> {"Status", "Initialize", "Reload", "WorkersList"}

\* messages the other side of a peer may send, with the length of their
\* encoding; one of them takes three chunks
FrameMessages(p) ==
    CASE p = "WorkerSession" ->
            {[type |-> "Initialize", size |-> 4],
             [type |-> "JobStart", id |-> 1, name |-> "ls", size |-> 38],
             [type |-> "Stdout", id |-> 1, line |-> "long", size |-> 140000],
             [type |-> "JobEnd", id |-> 1, name |-> "ls", size |-> 38]}
      [] p = "ManagerSession" ->
            {[type |-> "Initialize", size |-> 4],
             [type |-> "Reload", size |-> 4],
             [type |-> "Query", query |-> "long", size |-> 140000]}
      [] p = "Worker" ->
            {[type |-> "Reload", size |-> 4],
             [type |-> "Initialize", size |-> 40],
             [type |-> "Initialize", size |-> 140000]}
      [] p = "CommandLine" ->
            {[type |-> "Initialize", size |-> 4],
             [type |-> "Reload", size |-> 5],
             [type |-> "WorkersList", size |-> 140000]}

\* bytes that are the encoding of no variant
Junk == [type |-> "Junk", size |-> 3]

\* the encoding of a message as the other side wrote it
payload(m) == << [msg |-> m, lo |-> 0, hi |-> m.size] >>

\* bincode deserialize::<T> in a peer's handle_binary
frame_deserialize(p, bytes) ==
    IF Len(bytes) = 1 /\ bytes[1].lo = 0 /\ bytes[1].hi = bytes[1].msg.size
       /\ bytes[1].msg.type \in Variants(p)
    THEN [ok |-> TRUE, msg |-> bytes[1].msg]
    ELSE [ok |-> FALSE]

\* ping and pong payloads: the twelve bytes of send_ts_ping, or others
PingPayloads == {[len |-> 12, secs |-> 1], [len |-> 5, secs |-> 0]}

\* parse_ts_ping taken to decode a payload of any length
parse_ts_ping_any(bytes) == [some |-> TRUE, secs |-> bytes.secs]

\* pudlib parse_ts_ping
parse_ts_ping(bytes) ==
    IF bytes.len = 12 THEN [some |-> TRUE, secs |-> bytes.secs] ELSE [some |-> FALSE]

\* what a handler is given and leaves: the peer's fields, and what it did
Handling ==
    [hb |-> hb, cont_bytes |-> cont_bytes, jobs |-> jobs, actor |-> actor,
     calls |-> <<>>, pongs |-> <<>>, posts |-> <<>>, acted |-> <<>>, stored |-> <<>>,
     dur |-> [some |-> FALSE]]

\* handle_binary of the four peers: the sessions set hb; a payload that
\* decodes is acted on, another is logged
peer_handle_binary(p, st, bytes) ==
    LET st1 == [st EXCEPT !.calls = Append(@, bytes),
                          !.hb = IF handle_binary_refreshes(p) THEN now ELSE @]
        d == frame_deserialize(p, bytes)
    IN IF ~d.ok THEN st1
       ELSE LET st2 == [st1 EXCEPT !.acted = Append(@, d.msg)] IN
            CASE p = "WorkerSession" ->
                    IF d.msg.type = "Initialize"
                    THEN [st2 EXCEPT !.posts = Append(@, [type |-> "Initialize",
                                                         id |-> FrameSelf.id,
                                                         name |-> FrameSelf.name])]
                    ELSE LET after == session_handle_job(st2.jobs, FrameSelf, d.msg)
                         IN [st2 EXCEPT !.jobs = after.jobs,
                                        !.stored = @ \o after.stored]
              [] p = "ManagerSession" ->
                    [st2 EXCEPT !.posts = Append(@, [type |-> d.msg.type,
                                                    id |-> FrameSelf.id])]
              [] p = "Worker" -> st2
              [] p = "CommandLine" ->
                    IF d.msg.type \in {"Reload", "WorkersList"}
                    THEN [st2 EXCEPT !.actor = "stopping"]
                    ELSE st2

\* handle_text taken to stop the actor
handle_text_stops(st) == [st EXCEPT !.actor = "stopping"]

\* handle_text: the text is logged
handle_text(st) == st

\* handle_continuation of the four peers: on Last the sessions hand
\* cont_bytes.split() to handle_binary, the clients the bytes of the item
peer_handle_continuation(p, st, item, bytes) ==
    CASE item = "FirstText" -> st
      [] item \in {"FirstBinary", "Continue"} ->
            [st EXCEPT !.cont_bytes = extend_from_slice(@, bytes)]
      [] item = "Last" ->
            LET st1 == [st EXCEPT !.cont_bytes = extend_from_slice(@, bytes)]
                st2 == IF p \in ServerSessions
                       THEN peer_handle_binary(p, [st1 EXCEPT !.cont_bytes = <<>>],
                                               st1.cont_bytes)
                       ELSE peer_handle_binary(p, st1, bytes)
            IN [st2 EXCEPT !.cont_bytes = <<>>]

\* impl StreamHandler for the four peers
peer_stream_handle(p, st, f) ==
    CASE f.frame = "Ping" ->
            [st EXCEPT !.dur = parse_ts_ping(f.payload), !.hb = now,
                       !.pongs = Append(@, f.payload)]
      [] f.frame = "Pong" ->
            [st EXCEPT !.dur = parse_ts_ping(f.payload), !.hb = now]
      [] f.frame = "Text" -> handle_text(st)
      [] f.frame = "Binary" -> peer_handle_binary(p, st, f.bytes)
      [] f.frame = "Close" -> [st EXCEPT !.actor = "stopping"]
      [] f.frame = "Continuation" -> peer_handle_continuation(p, st, f.item, f.bytes)

\* the frames the other side may send whatever else is under way
AnyTimeFrames ==
    {[frame |-> "Ping", payload |-> b] : b \in PingPayloads}
        \cup {[frame |-> "Pong", payload |-> [len |-> 12, secs |-> 1]],
              [frame |-> "Text"], [frame |-> "Close"],
              Continuation("FirstText", <<>>), Binary(payload(Junk))}

\* the frames that may arrive next
NextFrames ==
    AnyTimeFrames \cup
        (IF inflight.rest # <<>> THEN {Head(inflight.rest)}
         ELSE {Head(write_frames(payload(m))) : m \in FrameMessages(peer)})

\* StreamHandler::handle of the next frame
Receive(f) ==
    /\ actor = "running"
    /\ handled.n < MaxInbound
    /\ LET st == peer_stream_handle(peer, Handling, f)
           chunk == f.frame = "Continuation" /\ f.item # "FirstText"
       IN /\ hb' = st.hb
          /\ cont_bytes' = st.cont_bytes
          /\ jobs' = st.jobs
          /\ actor' = st.actor
          /\ archive' = archive \o st.stored
          /\ handled' = [n |-> handled.n + 1, at |-> now, frame |-> f,
                         calls |-> st.calls, pongs |-> st.pongs, posts |-> st.posts,
                         acted |-> st.acted, stored |-> st.stored, dur |-> st.dur]
          /\ inflight' =
                IF ~chunk THEN inflight
                ELSE IF f.item = "FirstBinary"
                THEN [rest |-> Tail(write_frames(payload(f.bytes[1].msg))),
                      early |-> Len(st.calls)]
                ELSE [rest |-> Tail(inflight.rest),
                      early |-> IF f.item = "Last" THEN inflight.early
                                ELSE inflight.early + Len(st.calls)]
    /\ UNCHANGED <<peer, now, ticked, timedOut, disconnects, lastInbound, silent, stale,
                   seen>>
    /\ UNCHANGED <<threadVars, routerVars, jobVars, schedVars, queueVars, cliVars, calVars>>

\* a second passes
FrameSecond ==
    /\ actor = "running"
    /\ now < MaxFrameTime
    /\ now' = now + 1
    /\ UNCHANGED <<peer, hb, ticked, actor, timedOut, disconnects, lastInbound, silent,
                   stale>>
    /\ UNCHANGED <<threadVars, routerVars, jobVars, archiveVars, schedVars, queueVars, frameVars, cliVars, calVars>>

\* the peer as built: cont_bytes = BytesMut::new()
FrameInit ==
    /\ cont_bytes = <<>>
    /\ handled = [n |-> 0, at |-> 0, frame |-> [frame |-> "none"], calls |-> <<>>,
                  pongs |-> <<>>, posts |-> <<>>, acted |-> <<>>, stored |-> <<>>,
                  dur |-> [some |-> FALSE]]
    /\ inflight = [rest |-> <<>>, early |-> 0]

FrameNext ==
    \/ \E f \in NextFrames : Receive(f)
    \/ FrameSecond

(***************************************************************************)
(* One invocation of the command line client: run (pudcli/src/runtime)     *)
(* and the CommandLine actor it creates for every connection               *)
(* (pudcli/src/actor).  The manager session and the Server are the other   *)
(* end of the connection and answer what the CommandLine writes.           *)
(***************************************************************************)
\* the requests whose answers this CommandLine has an arm for
CliCommands == {[type |-> "Reload"], [type |-> "ListWorkers"]}

\* what the Server sends the manager for a message of its session
manager_answer(msg) ==
    CASE msg.type = "Initialize" -> [type |-> "Initialize"]
      [] msg.type = "Reload" -> [type |-> "Reload", result |-> TRUE]
      [] msg.type = "ListWorkers" -> [type |-> "WorkersList"]

\* while retry_count > 0: connect; when the connection stands the
\* CommandLine is created and started, which writes Initialize; without a
\* connection no actor exists and sys.run() has nothing to stop it
RunConnect(ok) ==
    /\ cmdline = "idle"
    /\ retry_count > 0
    /\ IF ok
       THEN /\ cmdline' = "running"
            /\ to_server' = << [type |-> "Initialize"] >>
            /\ cli' = [cli EXCEPT !.connects = @ + 1,
                                  !.reconnects = IF cli.answers > 0 THEN @ + 1 ELSE @]
       ELSE /\ cmdline' = "hung"
            /\ UNCHANGED <<to_server, cli>>
    /\ to_cli' = <<>>
    /\ UNCHANGED <<retry_count, error_count, command_to_run>>
    /\ UNCHANGED <<threadVars, routerVars, hbVars, jobVars, archiveVars, schedVars, queueVars, frameVars, calVars>>

\* the manager session hands the message to the Server, which answers it
ManagerAnswers ==
    /\ cmdline = "running"
    /\ to_server # <<>>
    /\ to_cli' = Append(to_cli, manager_answer(Head(to_server)))
    /\ to_server' = Tail(to_server)
    /\ UNCHANGED <<retry_count, error_count, command_to_run, cmdline, cli>>
    /\ UNCHANGED <<threadVars, routerVars, hbVars, jobVars, archiveVars, schedVars, queueVars, frameVars, calVars>>

\* CommandLine::handle_binary: Initialize writes command_to_run; Reload and
\* WorkersList print the answer and stop the actor, which stops the System
CliHandleBinary ==
    /\ cmdline = "running"
    /\ to_cli # <<>>
    /\ LET msg == Head(to_cli) IN
       IF msg.type = "Initialize"
       THEN /\ to_server' = Append(to_server, command_to_run)
            /\ to_cli' = Tail(to_cli)
            /\ cli' = [cli EXCEPT !.inits = @ + 1, !.requests = @ + 1]
            /\ UNCHANGED cmdline
       ELSE /\ cmdline' = "stopped"
            /\ to_server' = <<>>
            /\ to_cli' = <<>>
            /\ cli' = [cli EXCEPT !.answers = @ + 1]
    /\ UNCHANGED <<retry_count, error_count, command_to_run>>
    /\ UNCHANGED <<threadVars, routerVars, hbVars, jobVars, archiveVars, schedVars, queueVars, frameVars, calVars>>

\* a Close frame, or the end of the stream: ctx.stop()
CliClosed ==
    /\ cmdline = "running"
    /\ cmdline' = "stopped"
    /\ to_server' = <<>>
    /\ to_cli' = <<>>
    /\ UNCHANGED <<retry_count, error_count, command_to_run, cli>>
    /\ UNCHANGED <<threadVars, routerVars, hbVars, jobVars, archiveVars, schedVars, queueVars, frameVars, calVars>>

\* sys.run() has returned: retry_count -= 1, sleep 2^error_count seconds,
\* error_count += 1, and the loop tests retry_count again
RunRetry ==
    /\ cmdline = "stopped"
    /\ retry_count' = retry_count - 1
    /\ cli' = [cli EXCEPT !.slept = @ + 2 ^ error_count]
    /\ error_count' = error_count + 1
    /\ cmdline' = "idle"
    /\ UNCHANGED <<command_to_run, to_server, to_cli>>
    /\ UNCHANGED <<threadVars, routerVars, hbVars, jobVars, archiveVars, schedVars, queueVars, frameVars, calVars>>

\* the loop ends when retry_count is 0, and run returns
RunExit ==
    /\ cmdline = "idle"
    /\ retry_count = 0
    /\ cmdline' = "exited"
    /\ UNCHANGED <<retry_count, error_count, command_to_run, to_server, to_cli, cli>>
    /\ UNCHANGED <<threadVars, routerVars, hbVars, jobVars, archiveVars, schedVars, queueVars, frameVars, calVars>>

\* run before its loop: error_count = 0, nothing connected
CliStart ==
    /\ error_count = 0
    /\ cmdline = "idle"
    /\ to_server = <<>>
    /\ to_cli = <<>>
    /\ cli = [connects |-> 0, reconnects |-> 0, inits |-> 0, requests |-> 0,
              answers |-> 0, slept |-> 0]

\* no command line client is invoked
CliRest == CliStart /\ retry_count = 0 /\ command_to_run = [type |-> "Reload"]

\* an invocation with its configuration read and its request chosen
CliInit ==
    /\ CliStart
    /\ retry_count \in 0..MaxRetry
    /\ command_to_run \in CliCommands

CliNext ==
    \/ \E ok \in BOOLEAN : RunConnect(ok)
    \/ ManagerAnswers
    \/ CliHandleBinary
    \/ CliClosed
    \/ RunRetry
    \/ RunExit

(***************************************************************************)
(* One field of a calendar: the text of the field is made of its items,    *)
(* and parse_day_of_week, parse_date or parse_hms is given it with "*" in  *)
(* the other places.                                                       *)
(***************************************************************************)
\* the fields but the year
Fields == {"day_of_week", "month", "day", "hour", "minute", "second"}

\* the names written for a day of the week, with the day parse_dow is to
\* find for them, -1 where it is no name of a day
Spellings ==
    <<
       [name |-> <<"S", "u", "n">>, day |-> 0],
       [name |-> <<"s", "u", "n", "d", "a", "y">>, day |-> 0],
       [name |-> <<"S", "u", "N", "d", "A", "y">>, day |-> 0],
       [name |-> <<"M", "o", "n">>, day |-> 1],
       [name |-> <<"m", "o", "n", "d", "a", "y">>, day |-> 1],
       [name |-> <<"M", "O", "N">>, day |-> 1],
       [name |-> <<"T", "u", "e">>, day |-> 2],
       [name |-> <<"t", "u", "e", "s", "d", "a", "y">>, day |-> 2],
       [name |-> <<"T", "u", "E", "s", "D", "a", "Y">>, day |-> 2],
       [name |-> <<"W", "e", "d">>, day |-> 3],
       [name |-> <<"w", "e", "d", "n", "e", "s", "d", "a", "y">>, day |-> 3],
       [name |-> <<"W", "E", "D">>, day |-> 3],
       [name |-> <<"T", "h", "u">>, day |-> 4],
       [name |-> <<"t", "h", "u", "r", "s", "d", "a", "y">>, day |-> 4],
       [name |-> <<"T", "h", "U", "r", "S", "d", "A", "y">>, day |-> 4],
       [name |-> <<"F", "r", "i">>, day |-> 5],
       [name |-> <<"f", "r", "i", "d", "a", "y">>, day |-> 5],
       [name |-> <<"F", "R", "I">>, day |-> 5],
       [name |-> <<"S", "a", "t">>, day |-> 6],
       [name |-> <<"s", "a", "t", "u", "r", "d", "a", "y">>, day |-> 6],
       [name |-> <<"S", "a", "T", "u", "R", "d", "A", "y">>, day |-> 6],
       [name |-> <<"H", "o", "g", "w", "a", "s", "h">>, day |-> -1],
       [name |-> <<"m", "o">>, day |-> -1],
       [name |-> <<"M", "o", "n", "d">>, day |-> -1],
       [name |-> <<>>, day |-> -1] >>

\* no second number, no repetition
Absent == -1

\* an item of a field: a value, a..b, a/n or a..b/n; for the day of the
\* week first and second are the places of two names in Spellings
Item(first, second, rep) == [first |-> first, second |-> second, rep |-> rep]

\* the numbers written in the items
Numbers == {0, 1, 2, 5, 9, 11, 12, 13, 17, 23, 24, 28, 30, 31, 32, 59, 60, 99}

\* the repetitions written in the items
Steps == {0, 1, 2, 3, 15}

NumberItems ==
    {Item(a, b, n) : a \in Numbers, b \in Numbers \cup {Absent}, n \in Steps \cup {Absent}}

\* the items lists are made of
NumberSamples ==
    {Item(1, Absent, Absent), Item(5, Absent, Absent), Item(3, 9, 2), Item(10, 12, Absent),
     Item(0, Absent, 15), Item(9, 5, Absent), Item(300, Absent, Absent), Item(2, 5, Absent)}

DowItems ==
    {Item(a, b, Absent) : a \in 1..Len(Spellings), b \in (1..Len(Spellings)) \cup {Absent}}

DowSamples ==
    {Item(1, Absent, Absent), Item(9, Absent, Absent), Item(4, 13, Absent), Item(20, Absent, Absent),
     Item(5, 5, Absent), Item(16, 4, Absent), Item(22, Absent, Absent), Item(6, 18, Absent)}

\* the lists of items a field is written with; none stands for "*"
Lists(items, samples) ==
    {<<>>} \cup {<<i>> : i \in items} \cup {<<i, j>> : i, j \in samples}
    \cup {<<i, j, k>> : i, j, k \in {x \in samples : x.second # Absent}}

\* a number as Display writes it
RECURSIVE decimal(_)
decimal(n) == IF n < 10 THEN <<Digits[n + 1]>> ELSE decimal(n \div 10) \o <<Digits[(n % 10) + 1]>>

\* the text of an item of the day of the week
dow_text(item) ==
    Spellings[item.first].name
    \o (IF item.second = Absent THEN <<>> ELSE <<".", ".">> \o Spellings[item.second].name)

\* the text of an item of another field
number_text(item) ==
    decimal(item.first)
    \o (IF item.second = Absent THEN <<>> ELSE <<".", ".">> \o decimal(item.second))
    \o (IF item.rep = Absent THEN <<>> ELSE <<"/">> \o decimal(item.rep))

\* the texts joined with commas
RECURSIVE join(_)
join(texts) ==
    IF Len(texts) = 1 THEN texts[1] ELSE texts[1] \o <<",">> \o join(Tail(texts))

\* the text of a field
text_of(f, list) ==
    IF list = <<>>
    THEN <<"*">>
    ELSE join([i \in 1..Len(list) |->
                 IF f = "day_of_week" THEN dow_text(list[i]) ELSE number_text(list[i])])

\* the date with the text as its month or its day
date_with(f, text) ==
    IF f = "month"
    THEN <<"*", "-">> \o text \o <<"-", "*">>
    ELSE <<"*", "-", "*", "-">> \o text

\* the time with the text as its hour, its minute or its second
hms_with(f, text) ==
    CASE f = "hour" -> text \o <<":", "*", ":", "*">>
      [] f = "minute" -> <<"*", ":">> \o text \o <<":", "*">>
      [] f = "second" -> <<"*", ":", "*", ":">> \o text

\* the field of what parse_date or parse_hms returned, or its error
field_of(f, result) ==
    IF ~result.ok
    THEN result
    ELSE Ok(result.v[CASE f = "month" -> 2 [] f = "day" -> 3
                       [] f = "hour" -> 1 [] f = "minute" -> 2 [] f = "second" -> 3])

Unparsed == Err("unparsed")

\* parse_day_of_week, parse_date or parse_hms given the text of the field
ParseField ==
    /\ parsed_field = Unparsed
    /\ parsed_field' = CASE the_field = "day_of_week" ->
                       parse_day_of_week(text_of(the_field, the_items))
                  [] the_field \in {"month", "day"} ->
                       field_of(the_field, parse_date(date_with(the_field, text_of(the_field, the_items)),
                                                  thread_rng(0)))
                  [] OTHER ->
                       field_of(the_field, parse_hms(hms_with(the_field, text_of(the_field, the_items)),
                                                 thread_rng(0)))
    /\ UNCHANGED <<on_calendar, matcher, moment, matched, the_field, the_items>>
    /\ UNCHANGED <<threadVars, routerVars, hbVars, jobVars, archiveVars, schedVars, queueVars, frameVars,
                   cliVars>>

\* no field is looked at
FieldRest ==
    /\ the_field = "hour"
    /\ the_items = <<>>
    /\ parsed_field = Unparsed

FieldInit ==
    /\ the_field \in Fields
    /\ the_items \in (IF the_field = "day_of_week"
                  THEN Lists(DowItems, DowSamples)
                  ELSE Lists(NumberItems, NumberSamples))
    /\ parsed_field = Unparsed

FieldNext == ParseField

(***************************************************************************)
(* One calendar: parse_calendar is given the string, and should_run the    *)
(* Realtime it made and a moment.                                          *)
(***************************************************************************)
\* the seconds of a day should_run is asked about
TimesOfDay == {0, 1, 60, 3600, 32400, 32401, 32460, 36000, 86399}

\* the moments should_run is asked about, in seconds after 1970-01-01
Moments == {day * 86400 + tod : day \in 0..MaxDay, tod \in TimesOfDay}

\* parse_calendar(on_calendar)
ParseCalendar ==
    /\ matcher.err = "unparsed"
    /\ \E rng \in Rngs : matcher' = parse_calendar(on_calendar, rng)
    /\ UNCHANGED <<on_calendar, moment, matched, the_field, the_items, parsed_field>>
    /\ UNCHANGED <<threadVars, routerVars, hbVars, jobVars, archiveVars, schedVars, queueVars, frameVars,
                   cliVars>>

\* realtime.should_run(now) for the Realtime parsed, asked once
ShouldRun ==
    /\ matcher.ok
    /\ moment = -1
    /\ \E t \in Moments :
          /\ moment' = t
          /\ matched' = should_run(matcher.rt, t)
    /\ UNCHANGED <<on_calendar, matcher, the_field, the_items, parsed_field>>
    /\ UNCHANGED <<threadVars, routerVars, hbVars, jobVars, archiveVars, schedVars, queueVars, frameVars,
                   cliVars>>

\* nothing parsed and nothing asked
CalStart ==
    /\ matcher = [ok |-> FALSE, err |-> "unparsed", rt |-> RealtimeDefault]
    /\ moment = -1
    /\ matched = FALSE

\* no calendar is looked at
CalRest == CalStart /\ on_calendar = "*:*:*" /\ FieldRest

CalInit == CalStart /\ on_calendar \in Calendars \cup RandomCalendars /\ FieldRest

CalNext ==
    \/ ParseCalendar
    \/ ShouldRun

(***************************************************************************)
(* The specifications.  Each moves its own part of the state and leaves    *)
(* the rest as it starts.                                                  *)
(***************************************************************************)
HbRest == HbInit /\ peer = "WorkerSession"

Init == RouterInit /\ HbRest /\ JobInit /\ ThreadRest /\ ArchiveInit /\ SchedInit /\ QueueInit /\ FrameInit /\ CliRest /\ CalRest

Next == RouterNext

Spec == Init /\ [][Next]_vars

InitHb == RouterInit /\ HbInit /\ JobInit /\ ThreadRest /\ ArchiveInit /\ SchedInit /\ QueueInit /\ FrameInit /\ CliRest /\ CalRest

NextHb == HbNext

SpecHb == InitHb /\ [][NextHb]_vars

SpecReq == Init /\ [][RequestNext]_vars

SpecRegistry == Init /\ [][RegistryNext]_vars

\* a worker client "alpha" and a manager client connected and registered
InitConnected == RouterConnected /\ HbRest /\ JobInit /\ ThreadRest /\ ArchiveInit /\ SchedInit /\ QueueInit /\ FrameInit /\ CliRest /\ CalRest

SpecReload == InitConnected /\ [][ReloadNext]_vars

SpecSched == Init /\ [][SchedNext]_vars

SpecArchive == InitConnected /\ [][WorkerSessionJobFrame]_vars

InitJob == RouterInit /\ HbRest /\ JobInit /\ ThreadRest /\ ArchiveInit /\ SchedInit /\ QueueInit /\ FrameInit /\ CliRest /\ CalRest

NextJob == JobNext

SpecJob == InitJob /\ [][NextJob]_vars

InitThread == RouterInit /\ HbRest /\ JobInit /\ ThreadInit /\ ArchiveInit /\ SchedInit /\ QueueInit /\ FrameInit /\ CliRest /\ CalRest

SpecThread == InitThread /\ [][ThreadNext]_vars

SpecSession == InitConnected /\ [][SessionNext]_vars

SpecQueue == Init /\ [][QueueNext]_vars

SpecFrames == InitHb /\ [][FrameNext]_vars

InitCli == RouterInit /\ HbRest /\ JobInit /\ ThreadRest /\ ArchiveInit /\ SchedInit /\ QueueInit /\ FrameInit /\ CliInit /\ CalRest

SpecCli == InitCli /\ [][CliNext]_vars

InitCal == RouterInit /\ HbRest /\ JobInit /\ ThreadRest /\ ArchiveInit /\ SchedInit /\ QueueInit /\ FrameInit /\ CliRest /\ CalInit

SpecCal == InitCal /\ [][CalNext]_vars

InitField == RouterInit /\ HbRest /\ JobInit /\ ThreadRest /\ ArchiveInit /\ SchedInit /\ QueueInit /\ FrameInit /\ CliRest
             /\ CalStart /\ on_calendar = "*:*:*" /\ FieldInit

SpecField == InitField /\ [][FieldNext]_vars

(***************************************************************************)
(* Properties of the router, checked under Spec.                           *)
(***************************************************************************)
\* how many of the sends go to the entry id of the registry kind with message
CountSends(sends, kind, id, message) ==
    Cardinality({i \in 1..Len(sends) :
        sends[i].kind = kind /\ sends[i].id = id /\ sends[i].msg = message})

\* every send of the list carries message
OnlyMessage(sends, message) == \A i \in 1..Len(sends) : sends[i].msg = message

\* the message goes once to every entry of both registries but those in skip
OnceToAllBut(sends, ws, ms, message, skip) ==
    /\ OnlyMessage(sends, message)
    /\ \A i \in 1..Len(sends) :
        \/ sends[i].kind = "worker" /\ sends[i].id \in DOMAIN ws
        \/ sends[i].kind = "manager" /\ sends[i].id \in DOMAIN ms
    /\ \A id \in DOMAIN ws :
        CountSends(sends, "worker", id, message) = IF id \in skip THEN 0 ELSE 1
    /\ \A id \in DOMAIN ms :
        CountSends(sends, "manager", id, message) = IF id \in skip THEN 0 ELSE 1

\* C4: a Disconnect for a registered id removes that entry and lowers the
\* count of its kind by exactly one; a Disconnect for an id that is not
\* registered, such as the second one a heartbeat timeout sends, changes
\* neither the registry nor the count and broadcasts nothing.
C4_DisconnectOnce ==
    [][ /\ last'.msg.type = "WorkerDisconnect" =>
            IF last'.msg.id \in DOMAIN workers
            THEN /\ DOMAIN workers' = DOMAIN workers \ {last'.msg.id}
                 /\ \A id \in DOMAIN workers' : workers'[id] = workers[id]
                 /\ worker_count' = worker_count - 1
                 /\ UNCHANGED <<managers, manager_count>>
            ELSE /\ UNCHANGED <<workers, worker_count, managers, manager_count>>
                 /\ last'.calls = <<>>
        /\ last'.msg.type = "ManagerDisconnect" =>
            IF last'.msg.id \in DOMAIN managers
            THEN /\ DOMAIN managers' = DOMAIN managers \ {last'.msg.id}
                 /\ \A id \in DOMAIN managers' : managers'[id] = managers[id]
                 /\ manager_count' = manager_count - 1
                 /\ UNCHANGED <<workers, worker_count>>
            ELSE /\ UNCHANGED <<workers, worker_count, managers, manager_count>>
                 /\ last'.calls = <<>>
      ]_vars

\* the second Disconnect of a session that had been registered was handled:
\* its id was handed out by the router and is no longer in the registry
C4_Witness ==
    /\ last.msg.type = "ManagerDisconnect"
    /\ last.msg.id \in 1..(nextId - 1)
    /\ last.msg.id \notin DOMAIN managers
    /\ last.calls = <<>>
    /\ manager_count = 0

\* C5: a broadcast with a skip set sends its message to no registry entry
\* whose id is in the set, and exactly once to every other registered worker
\* and manager.
C5_BroadcastSkip ==
    \A i \in 1..Len(last.calls) :
        (last.calls[i].fn = "broadcast" /\ last.calls[i].skip_ids.some) =>
            OnceToAllBut(last.calls[i].sends, workers, managers,
                         last.calls[i].message, last.calls[i].skip_ids.ids)

\* a broadcast skipped a registered worker and reached a registered manager
C5_Witness ==
    \E i \in 1..Len(last.calls) :
        /\ last.calls[i].fn = "broadcast"
        /\ last.calls[i].skip_ids.some
        /\ \E id \in last.calls[i].skip_ids.ids : id \in DOMAIN workers
        /\ \E j \in 1..Len(last.calls[i].sends) : last.calls[i].sends[j].kind = "manager"

\* C6: on Connect the new entry is inserted under an id no entry had, the
\* joined notice goes once to every registered worker and manager but the
\* new peer, and after it the total goes once to every registered peer, the
\* new one too, with the number of entries of that kind after the insertion.
C6_ConnectNotices ==
    [][ /\ last'.msg.type = "WorkerConnect" =>
            \E id \in DOMAIN workers' :
                /\ id \notin DOMAIN workers \cup DOMAIN managers
                /\ DOMAIN workers' = DOMAIN workers \cup {id}
                /\ workers'[id].name = last'.msg.name
                /\ workers'[id].addr = last'.msg.addr
                /\ Len(last'.calls) = 2
                /\ OnceToAllBut(last'.calls[1].sends, workers', managers',
                                Status("worker joined", id), {id})
                /\ OnceToAllBut(last'.calls[2].sends, workers', managers',
                                Status("total workers", Cardinality(DOMAIN workers')), {})
        /\ last'.msg.type = "ManagerConnect" =>
            \E id \in DOMAIN managers' :
                /\ id \notin DOMAIN workers \cup DOMAIN managers
                /\ DOMAIN managers' = DOMAIN managers \cup {id}
                /\ managers'[id].addr = last'.msg.addr
                /\ Len(last'.calls) = 2
                /\ OnceToAllBut(last'.calls[1].sends, workers', managers',
                                Status("manager joined", id), {id})
                /\ OnceToAllBut(last'.calls[2].sends, workers', managers',
                                Status("total managers", Cardinality(DOMAIN managers')), {})
      ]_vars

\* a second worker connected while a first was registered: the first got the
\* joined notice and both got the total of two
C6_Witness ==
    /\ last.msg.type = "WorkerConnect"
    /\ Cardinality(DOMAIN workers) = 2
    /\ Len(last.calls[1].sends) = 1
    /\ Len(last.calls[2].sends) = 2
    /\ last.calls[2].message = Status("total workers", 2)

\* the overlay of the defaults with the overrides of one name, key by key
Overlay(default, over) ==
    [k \in DOMAIN default \cup DOMAIN over |->
        IF k \in DOMAIN over THEN over[k] ELSE default[k]]

\* C7: the command table of an Initialize reply is the defaults overlaid key
\* by key with overrides[w], an override replacing a default of the same name
\* and adding the names the defaults lack; the defaults unchanged when
\* overrides[w] is absent; the schedule list is schedules[w], or empty.
C7_InitializeReply ==
    last.msg.type = "WorkerSessionToServer::Initialize" =>
        LET w == last.msg.name
            reply == last.calls[1].message
        IN /\ Len(last.calls) = 1
           /\ reply.type = "Initialize"
           /\ reply.commands =
                IF w \in DOMAIN config.overrides
                THEN Overlay(config.default, config.overrides[w])
                ELSE config.default
           /\ reply.schedules =
                IF w \in DOMAIN config.schedules
                THEN config.schedules[w].schedules
                ELSE <<>>
           /\ OnlyMessage(last.calls[1].sends, reply)
           /\ \A id \in DOMAIN workers :
                CountSends(last.calls[1].sends, "worker", id, reply)
                    = IF id = last.msg.id THEN 1 ELSE 0

\* a worker whose name has overrides got its reply: one default replaced,
\* one kept, one name added
C7_Witness ==
    /\ last.msg.type = "WorkerSessionToServer::Initialize"
    /\ last.msg.name = "alpha"
    /\ config = ConfigV1
    /\ Len(last.calls[1].sends) = 1
    /\ last.calls[1].message.commands["ls"] = Command("ls -la")
    /\ last.calls[1].message.commands["df"] = Command("df -h")
    /\ last.calls[1].message.commands["up"] = Command("up")

C9_FailedReloadKeepsConfig ==
    [][ (last'.msg.type = "ManagerSessionToServer::Reload" /\ ~last'.res.ok)
            => /\ last'.res.err \in DiskErrors
               /\ config' = config
               /\ \A w \in {"alpha", "beta"} :
                    /\ initialize_commands(config', w) = initialize_commands(config, w)
                    /\ initialize_schedule(config', w) = initialize_schedule(config, w)
      ]_vars

\* a reread failed after an earlier Reload had replaced the configuration:
\* the replaced configuration stays
C9_Witness ==
    /\ last.msg.type = "ManagerSessionToServer::Reload"
    /\ ~last.res.ok
    /\ last.res.err = "TomlParse"
    /\ config = ConfigV2

\* a worker connection at rest: registered and running, nothing of it waiting
\* in the Server's mailbox, in its session's mailbox or on its socket
AtRest(c) ==
    /\ sess[c].state = "running"
    /\ sess[c].id \in DOMAIN workers
    /\ mailbox = <<>>
    /\ outbox[c] = <<>>
    /\ wc[c].written = 0

\* C10: after a successful Reload every worker that stays connected gets
\* Reload, asks for Initialize again and is answered from the new
\* configuration; once that answer has arrived and nothing more is under way
\* the command table and schedule list of a worker that was initialized
\* before are those of the router's configuration.
C10_ReloadReachesWorkers ==
    \A c \in WorkerConns :
        (AtRest(c) /\ wc[c].commands # EmptyMap) =>
            /\ wc[c].commands = initialize_commands(config, sess[c].name)
            /\ wc[c].schedules = initialize_schedule(config, sess[c].name)

(***************************************************************************)
(* Properties of the heartbeat, checked under SpecHb.                      *)
(***************************************************************************)
\* the time since the latest inbound frame, or since the start without one
Quiet == now - lastInbound

\* C2: a session that has received no inbound frame for 10 s closes within
\* 1 s after the 10 s mark: no session runs when more than 11 s have passed
\* since its latest inbound frame.
C2_ClosesWithinOneSecond ==
    (peer \in ServerSessions /\ actor = "running") => Quiet <= CLIENT_TIMEOUT + 1

\* C2, amended: such a session closes at the first heartbeat check that finds
\* hb more than 10 s old, which comes within 5 s after the 10 s mark: a
\* session still runs 15 s after its latest inbound frame only in the instant
\* before the check due then, and the check that times out sends Disconnect
\* and stops the session.
C2_ClosesWithinInterval ==
    peer \in ServerSessions =>
        /\ actor = "running" => Quiet <= CLIENT_TIMEOUT + HEARTBEAT_INTERVAL
        /\ (actor = "running" /\ Quiet = CLIENT_TIMEOUT + HEARTBEAT_INTERVAL)
                => (now % HEARTBEAT_INTERVAL = 0 /\ ticked < now)
        /\ timedOut => (actor # "running" /\ disconnects >= 1)

\* a session timed out 15 s after its latest inbound frame, which came at a
\* heartbeat check, and has sent its two Disconnect messages
C2_Witness ==
    /\ peer \in ServerSessions
    /\ timedOut
    /\ actor = "stopped"
    /\ lastInbound = HEARTBEAT_INTERVAL
    /\ Quiet = CLIENT_TIMEOUT + HEARTBEAT_INTERVAL
    /\ disconnects = 2

\* the longest gap, in seconds, at which inbound frames are said to keep a
\* peer from timing out
MaxQuietGap == CLIENT_TIMEOUT - 1

\* C3: while inbound frames of any kind keep arriving with gaps of at most
\* 9 s no peer declares a heartbeat timeout: a peer that has timed out has
\* seen a gap of more than 9 s between inbound frames.
C3_AnyFrameKeepsAlive ==
    timedOut => (silent \/ Quiet > MaxQuietGap)

\* the kinds of frame that refresh hb: ping and pong on every peer, binary
\* and the Last of a continuation on the two server sessions only
RefreshingKinds(p) ==
    {"Ping", "Pong"} \cup (IF p \in ServerSessions THEN {"Binary", "Last"} ELSE {})

\* C3, amended: while ping or pong frames, or on a server session binary
\* frames or Last continuation frames, keep arriving with gaps of at most 9 s
\* the peer declares no heartbeat timeout: each such frame refreshes hb, and
\* a peer that has timed out had hb more than 9 s old.  Text frames,
\* FirstText, FirstBinary and Continue frames refresh hb on no peer, and
\* binary and Last frames do not on the worker client and the CLI.
C3_RefreshingFramesKeepAlive ==
    /\ stale \cap RefreshingKinds(peer) = {}
    /\ timedOut => now - hb > MaxQuietGap
    /\ hb <= lastInbound

\* a worker client timed out although a binary frame had arrived 5 s before
C3_Witness ==
    /\ peer = "Worker"
    /\ timedOut
    /\ ~silent
    /\ Quiet = HEARTBEAT_INTERVAL
    /\ "Binary" \in stale
    /\ hb > 0

(***************************************************************************)
(* Properties of a job, checked under SpecJob.                             *)
(***************************************************************************)
\* the job has terminated: the child is gone, the executor and both readers
\* are through, and every message of the job has reached the outbound queue
Terminated ==
    /\ exec = "done"
    /\ child \in {"exited", "signaled", "killed"}
    /\ \A st \in Streams : reader[st] = "done"
    /\ \A ch \in Channels : chan[ch] = <<>>
    /\ inbox = <<>>

\* JobStart, (Stdout | Stderr)*, Status, JobEnd, all of one job id
Transcript(q) ==
    /\ Len(q) >= 3
    /\ q[1].type = "JobStart"
    /\ \A i \in 2..(Len(q) - 2) : q[i].type \in {"Stdout", "Stderr"}
    /\ q[Len(q) - 1].type = "Status"
    /\ q[Len(q)].type = "JobEnd"
    /\ \A i \in 1..Len(q) : q[i].id = command_id

\* C1: the frames a worker puts on its outbound queue for a job that
\* terminates are, in queue order, JobStart, then the job's Stdout and Stderr
\* frames, then Status, then JobEnd; no Stdout or Stderr frame of the job is
\* put on the queue after its Status, however the executor, the two readers
\* and the three forwarding tasks interleave.
C1_JobTranscript ==
    /\ Terminated => Transcript(stdout_queue)
    /\ \A i \in 1..Len(stdout_queue) : \A j \in (i + 1)..Len(stdout_queue) :
            stdout_queue[i].type = "Status"
                => stdout_queue[j].type \notin {"Stdout", "Stderr"}

(***************************************************************************)
(* Properties of the router under repeated rereads (SpecReload).           *)
(***************************************************************************)
\* C11: when the configuration was reread twice from the same file contents,
\* the Initialize reply a worker gets after the second reread carries the
\* same command table and the same schedule list as the reply it got after
\* the first
C11_SameFileSameReply ==
    [][\A c \in WorkerConns :
        (/\ initReply'[c] # initReply[c]
         /\ initReply'[c].sent
         /\ initReply'[c].again)
        => /\ initReply'[c].commands = initReply[c].commands
           /\ initReply'[c].schedules = initReply[c].schedules]_vars

\* a worker got a reply after each of two rereads of the same file contents,
\* and the file gives the worker commands of its own and a schedule
C11_Witness ==
    \E c \in WorkerConns :
        /\ initReply[c].sent
        /\ initReply[c].again
        /\ initReply[c].loads >= 2
        /\ initReply[c].schedules # <<>>
        /\ initReply[c].commands # initReply[c].file.config.default

(***************************************************************************)
(* Properties of the router's requests (SpecReq).                          *)
(***************************************************************************)
\* C12: the WorkersList reply to ListWorkers(id) goes to manager id and to
\* nobody else, it has one entry for every worker registered when the
\* request is handled and no other entry, each entry maps the worker's id
\* to its ip and its name, and the handler changes no registry and no count.
C12_ListWorkers ==
    [][last'.msg.type = "ManagerSessionToServer::ListWorkers" =>
        LET sends == SendsOf(last'.calls)
            reply == last'.calls[1].message
        IN /\ Len(last'.calls) = 1
           /\ reply.type = "WorkersList"
           /\ DOMAIN reply.workers = DOMAIN workers
           /\ \A id \in DOMAIN workers :
                /\ reply.workers[id][1] = IpOf(workers[id].addr)
                /\ reply.workers[id][2] = sess[workers[id].addr].name
                      \/ ~Alive(workers[id].addr)
                /\ reply.workers[id][2] \in NamesOf(workers[id].addr)
           /\ \A i \in 1..Len(sends) :
                sends[i] = Send("manager", last'.msg.id, reply)
           /\ Len(sends) = IF last'.msg.id \in DOMAIN managers THEN 1 ELSE 0
           /\ workers' = workers /\ managers' = managers
           /\ worker_count' = worker_count /\ manager_count' = manager_count]_vars

\* a manager got a list with a worker in it
C12_Witness ==
    /\ last.msg.type = "ManagerSessionToServer::ListWorkers"
    /\ Len(SendsOf(last.calls)) = 1
    /\ DOMAIN last.calls[1].message.workers # {}

C14_SchedulesAnswer ==
    [][/\ (/\ mailbox' # mailbox
           /\ mailbox' # <<>>
           /\ mailbox'[Len(mailbox')].type = "WorkerSessionToServer::Schedules"
           /\ Len(mailbox') > Len(mailbox))
          => \E c \in WorkerConns :
                /\ sess[c].state = "running"
                /\ mailbox'[Len(mailbox')].name = sess[c].name
                /\ mailbox'[Len(mailbox')].schedules = wc[c].schedules
       /\ last'.msg.type = "WorkerSessionToServer::Schedules" =>
            LET msg == last'.msg
                sends == SendsOf(last'.calls)
            IN /\ sends = IF msg.manager_id \in DOMAIN managers
                          THEN << Send("manager", msg.manager_id,
                                       SchedulesReply(msg.name, msg.schedules)) >>
                          ELSE <<>>
               /\ workers' = workers /\ managers' = managers
               /\ worker_count' = worker_count /\ manager_count' = manager_count
               /\ config' = config /\ outbox' = outbox]_vars

\* an answer named a manager that had disconnected, and was dropped
C14_Witness ==
    /\ last.msg.type = "WorkerSessionToServer::Schedules"
    /\ last.msg.manager_id \notin DOMAIN managers
    /\ last.msg.manager_id \notin DOMAIN workers
    /\ \E m \in ManagerConns : sess[m].state = "stopped"
    /\ SendsOf(last.calls) = <<>>

\* C15: for a Query whose result vector has n documents the Server makes
\* max(n, 1) QueryReturn sends to the asking manager and none to anybody
\* else, in the order of the vector, each with the stdout, stderr, status,
\* start and end time of its document, done being true on the last one
\* only; for n = 0 the one frame has empty stdout and stderr and done true.
\* A manager that is no longer registered is sent nothing.
C15_QueryReturn ==
    [][last'.msg.type = "ManagerSessionToServer::Query" =>
        LET msg == last'.msg
            n == Len(msg.output)
            sends == SendsOf(last'.calls)
            frames == IF n = 0 THEN 1 ELSE n
        IN /\ Len(last'.calls) = frames
           /\ Len(sends) = IF msg.id \in DOMAIN managers THEN frames ELSE 0
           /\ \A i \in 1..Len(sends) :
                /\ sends[i].kind = "manager"
                /\ sends[i].id = msg.id
                /\ sends[i].msg.type = "QueryReturn"
                /\ sends[i].msg.done = (i = frames)
                /\ IF n = 0
                   THEN /\ sends[i].msg.stdout = <<>>
                        /\ sends[i].msg.stderr = <<>>
                   ELSE /\ sends[i].msg.stdout = msg.output[i].stdout
                        /\ sends[i].msg.stderr = msg.output[i].stderr
                        /\ sends[i].msg.status = msg.output[i].status
                        /\ sends[i].msg.start_time = msg.output[i].start_time
                        /\ sends[i].msg.end_time = msg.output[i].end_time]_vars

\* a registered manager got the frames of a result of two or more documents
C15_Witness ==
    /\ last.msg.type = "ManagerSessionToServer::Query"
    /\ Len(last.msg.output) >= 2
    /\ Len(SendsOf(last.calls)) = Len(last.msg.output)

(***************************************************************************)
(* Properties of the jobs of a worker session (SpecArchive), stated over   *)
(* the frames the session has handled.                                     *)
(***************************************************************************)
\* the place of the latest frame of a type for an id in a log, 0 if none
LastIndexIn(q, type, id) ==
    LET S == {i \in 1..Len(q) : q[i].type = type /\ q[i].id = id}
    IN IF S = {} THEN 0 ELSE CHOOSE i \in S : \A j \in S : j <= i

\* the log has a JobStart for the id with no JobEnd after it
OpenIn(q, id) == LastIndexIn(q, "JobStart", id) > LastIndexIn(q, "JobEnd", id)

\* the frames of a type for the id after its latest JobStart, in order
SinceStart(q, type, id) ==
    SelectSeq(SubSeq(q, LastIndexIn(q, "JobStart", id) + 1, Len(q)),
              LAMBDA f : f.type = type /\ f.id = id)

\* the session handles the frame that becomes the latest of the log
Handles(types) ==
    /\ Len(seen') = Len(seen) + 1
    /\ seen'[Len(seen')].type \in types

\* C16: a JobEnd for an id that has a job open hands exactly one document to
\* the archive, with the Stdout lines and the Stderr lines that came for the
\* id since its JobStart, each in the order they came, and the code of the
\* latest Status (0 if none came), and takes the id out of the map; a JobEnd
\* for an id with no job open, such as a second JobEnd, hands over nothing,
\* and so does every other frame.
C16_OneDocumentPerJob ==
    [][/\ Handles({"JobEnd"}) =>
            LET id == seen'[Len(seen')].id
                out == SinceStart(seen, "Stdout", id)
                err == SinceStart(seen, "Stderr", id)
                codes == SinceStart(seen, "Status", id)
            IN IF OpenIn(seen, id)
               THEN /\ Len(archive') = Len(archive) + 1
                    /\ SubSeq(archive', 1, Len(archive)) = archive
                    /\ LET doc == archive'[Len(archive')].document IN
                        /\ doc.job_id = id
                        /\ doc.stdout = [i \in 1..Len(out) |-> out[i].line]
                        /\ doc.stderr = [i \in 1..Len(err) |-> err[i].line]
                        /\ doc.status = IF codes = <<>> THEN 0
                                        ELSE codes[Len(codes)].code
                    /\ id \notin DOMAIN jobs'
               ELSE archive' = archive
       /\ Handles({"JobStart", "Stdout", "Stderr", "Status"}) => archive' = archive]_vars

\* a job with a Stdout line, a Stderr line and a Status was stored
C16_Witness ==
    \E i \in 1..Len(archive) :
        /\ archive[i].document.stdout # <<>>
        /\ archive[i].document.stderr # <<>>
        /\ archive[i].document.status # 0
        /\ seen[Len(seen)].type = "JobEnd"

\* C17: a Stdout, Stderr, Status or JobEnd frame for an id that has no job
\* open leaves the map as it is, hands nothing to the archive, puts nothing
\* into the Server's mailbox and leaves the session running.
C17_UnknownJobDropped ==
    [][(/\ Handles({"Stdout", "Stderr", "Status", "JobEnd"})
        /\ ~OpenIn(seen, seen'[Len(seen')].id))
       => /\ jobs' = jobs
          /\ archive' = archive
          /\ mailbox' = mailbox
          /\ sess' = sess]_vars

\* a line came for an id with no job open while another job was open
C17_Witness ==
    /\ seen # <<>>
    /\ seen[Len(seen)].type = "Stdout"
    /\ ~OpenIn(SubSeq(seen, 1, Len(seen) - 1), seen[Len(seen)].id)
    /\ jobs # EmptyMap
    /\ sess["w1"].state = "running"

(***************************************************************************)
(* Properties of the worker client's scheduler (SpecSched).                *)
(***************************************************************************)
\* the timers that are armed, of the given roles
Armed(roles) ==
    {h \in 1..Len(timers) : timers[h].state = "armed" /\ timers[h].role \in roles}

\* the places of the schedules of a type in the installed list
InstalledOf(type) == {i \in 1..Len(installed) : installed[i].type = type}

\* every timer that was due has fired
NothingDue == \A h \in 1..Len(timers) : ~Due(h)

\* C18: once every Initialize request of the worker is answered, whatever
\* Initialize and Reload frames came before, the armed timers are those of
\* the schedule list received last: one armed timer for each of its
\* Monotonic schedules, with its period and its command list, one realtime
\* ticker if it has Realtime schedules and none if it has not.
C18_ArmedAreLatest ==
    asked.initialize = 0 =>
        /\ Cardinality(Armed({"later", "interval"})) = Cardinality(InstalledOf("Monotonic"))
        /\ \A h \in Armed({"later", "interval"}) :
            \E i \in InstalledOf("Monotonic") :
                /\ timers[h].every = installed[i].on_unit_active_sec
                /\ timers[h].cmds = installed[i].cmds
        /\ Cardinality(Armed({"rt"})) = IF InstalledOf("Realtime") = {} THEN 0 ELSE 1

\* the one-shot timers of the Monotonic schedules that were not torn down:
\* armed, or done with their interval armed
Standing ==
    {h \in 1..Len(timers) :
        /\ timers[h].state \in {"armed", "done"}
        /\ timers[h].role = "later"
        /\ timers[h].state = "done" =>
                \E k \in Armed({"interval"}) : timers[k].parent = h}

\* the executors a Monotonic schedule has started, by its one-shot timer and
\* by its interval
RunsOf(h) ==
    {r \in started :
        \/ r.timer = h
        \/ r.timer \in Armed({"interval"}) /\ timers[r.timer].parent = h}

\* the seconds up to now at which a schedule installed at t with onBoot b
\* and onActive a is to run
RunTimes(t, b, a) == {x \in 0..clk : x >= t + b /\ (x - (t + b)) % a = 0}

\* C19: a Monotonic schedule with onBoot B and onActive A that was installed
\* at T and not torn down has started its command list once at each of T+B,
\* T+B+A, T+B+2A, ... that has passed, and at no other time.
C19_MonotonicRunTimes ==
    \A h \in Standing :
        LET t == timers[h].armed_at
            b == timers[h].due - timers[h].armed_at
            a == timers[h].every
        IN /\ \A r \in RunsOf(h) :
                /\ r.at \in RunTimes(t, b, a)
                /\ r.cmds = timers[h].cmds
                /\ \A q \in RunsOf(h) : q.at = r.at => q = r
           /\ NothingDue => {r.at : r \in RunsOf(h)} = RunTimes(t, b, a)

\* a Monotonic schedule has run at T+B and again at T+B+A
C19_Witness ==
    \E h \in Standing :
        /\ NothingDue
        /\ Cardinality(RunsOf(h)) >= 2
        /\ Cardinality(RunTimes(timers[h].armed_at,
                                timers[h].due - timers[h].armed_at,
                                timers[h].every)) >= 2

\* C20: with one realtime ticker, at every tick it has made, each Realtime
\* schedule of the installed list whose calendar parses and matches the
\* second of the tick has got an executor of that tick with the schedule's
\* own command list.
C20_EachRealtimeScheduleRuns ==
    \A h \in Armed({"rt"}) :
        (Armed({"rt"}) = {h} /\ NothingDue) =>
            \A i \in InstalledOf("Realtime") :
                LET parsed == Parsed[installed[i].on_calendar] IN
                parsed.ok =>
                    \A t \in (timers[h].armed_at + 1)..clk :
                        should_run(parsed.rt, t) =>
                            \E r \in started :
                                /\ r.at = t
                                /\ r.timer = h
                                /\ r.cmds = installed[i].cmds

(***************************************************************************)
(* Properties of the executor thread and the outbound queue (SpecJob).     *)
(***************************************************************************)
\* C21: when the worker has handled Reload while the executor's child was
\* running, then once the executor is back from its next wait on the
\* condvar its loop has ended and the child runs no more, whenever the
\* Initialize reply that follows the Reload is handled.
C21_ReloadKillsChild ==
    sinceReload = "waited" => (exec = "done" /\ child # "running")

(***************************************************************************)
(* Properties of the worker client's outbound queue (SpecQueue).           *)
(***************************************************************************)
\* C22: the payloads written to the websocket, followed by those still in
\* the queue, are the messages the Worker was given, serialized, in the
\* order it was given them and each once.
C22_WrittenInOrderOnce ==
    /\ \A i \in 1..Len(wire) : wire[i].frame = "Binary"
    /\ [i \in 1..Len(wire) |-> wire[i].bytes] \o stdout_queue
            = [i \in 1..Len(pushed) |-> serialize(pushed[i])]

\* a drainer has just been started again, after an earlier one wrote
\* messages and was cancelled, and has messages to write
C22_Witness ==
    /\ wire # <<>>
    /\ stdout_queue # <<>>
    /\ drainer
    /\ tick.did = "start"
    /\ tick.at = instant
    /\ instant - stdout_last > QUEUE_IDLE_TIMEOUT

\* the later of two times
Later(a, b) == IF a >= b THEN a ELSE b

C25_NoFrameOverChunkSize ==
    \A i \in 1..Len(wire) : BytesLen(wire[i].bytes) <= CHUNK_SIZE

(***************************************************************************)
(* Properties of the peers' stream handlers (SpecFrames).                  *)
(***************************************************************************)
\* C24: when the Last item of a continuation sequence has been handled, in
\* any of the four peers, handle_binary has been called once for the
\* sequence, by the handler of Last, with the payloads of the sequence
\* concatenated in the order of arrival, and cont_bytes is empty.
C24_HandlerGetsWholePayload ==
    (handled.frame.frame = "Continuation" /\ handled.frame.item = "Last") =>
        /\ handled.calls = << payload(handled.frame.bytes[1].msg) >>
        /\ inflight.early = 0
        /\ cont_bytes = <<>>

\* C26: a peer that has handled a ping has written one pong with the
\* payload of the ping and set hb to the time of the ping, whatever the
\* length of the payload; a duration is decoded from it only when it has
\* twelve bytes, and nothing else is done.
C26_PingEchoed ==
    handled.frame.frame = "Ping" =>
        /\ handled.pongs = << handled.frame.payload >>
        /\ hb = handled.at
        /\ handled.dur.some = (handled.frame.payload.len = 12)
        /\ handled.calls = <<>> /\ handled.posts = <<>> /\ handled.stored = <<>>
        /\ actor = "running"

\* a command line has answered a ping of five bytes, a second after its start
C26_Witness ==
    /\ peer = "CommandLine"
    /\ handled.frame.frame = "Ping"
    /\ handled.frame.payload.len = 5
    /\ hb = 1
    /\ handled.pongs # <<>>

\* a frame a session does not act on: text, a FirstText item, or bytes that
\* do not decode to a variant of the session's message type
Stray(f, p) ==
    \/ f.frame = "Text"
    \/ f.frame = "Continuation" /\ f.item = "FirstText"
    \/ f.frame = "Binary" /\ ~frame_deserialize(p, f.bytes).ok

\* C27: the handling of a text frame, a FirstText item or a binary frame
\* that does not decode leaves a server session running, leaves its jobs,
\* its continuation buffer, the archive and the router's registries and
\* counts as they are, and sends nothing to the router.
C27_StrayFramesChangeNothing ==
    [][(handled'.n # handled.n /\ peer \in ServerSessions /\ Stray(handled'.frame, peer)) =>
            /\ actor' = "running"
            /\ UNCHANGED <<jobs, cont_bytes, archive>>
            /\ UNCHANGED <<workers, managers, worker_count, manager_count, mailbox>>
            /\ handled'.posts = <<>>
            /\ handled'.stored = <<>>]_vars

\* a worker session with a job open and a continuation sequence begun has
\* handled bytes that do not decode
C27_Witness ==
    /\ peer = "WorkerSession"
    /\ handled.frame = Binary(payload(Junk))
    /\ jobs # EmptyMap
    /\ cont_bytes # <<>>

\* C28: one CLI invocation sends its chosen request exactly once, and only
\* after it has received Initialize; once the response has been received it
\* neither reconnects nor sends the request again, whatever retry_count is
C28_OneRequestPerInvocation ==
    /\ cli.requests <= cli.inits
    /\ cli.requests <= 1
    /\ cli.reconnects = 0
    /\ (cli.answers > 0 => cli.requests = 1)

(***************************************************************************)
(* Properties of calendars (SpecCal).                                      *)
(***************************************************************************)
\* the moment should_run was asked about
Asked == date_time(moment)

\* midnight: hour, minute and second are 0
Midnight(now_utc) == now_utc.hour = 0 /\ now_utc.minute = 0 /\ now_utc.second = 0

\* C29: parse_calendar maps each mnemonic to its matcher: minutely to
\* second 0; hourly to minute 0 and second 0; daily to 00:00:00; weekly to
\* Monday 00:00:00; monthly to day 1 at 00:00:00; quarterly to day 1 of the
\* months 1, 4, 7, 10 at 00:00:00; semiannually to day 1 of the months 1, 7
\* at 00:00:00; yearly to day 1 of month 1 at 00:00:00; every other field
\* matches all values, so the parsed matcher runs at exactly these moments
C29_MnemonicsExpand ==
    (on_calendar \in Mnemonics /\ matcher.err # "unparsed") =>
        /\ matcher.ok
        /\ matcher.rt.year.kind = "All"
        /\ matcher.rt.day_of_week.all = (on_calendar # WEEKLY)
        /\ matcher.rt.month.all = (on_calendar \notin {QUARTERLY, SEMIANUALLY, YEARLY})
        /\ matcher.rt.day.all =
                (on_calendar \notin {MONTHLY, QUARTERLY, SEMIANUALLY, YEARLY})
        /\ matcher.rt.hour.all = (on_calendar \in {MINUTELY, HOURLY})
        /\ matcher.rt.minute.all = (on_calendar = MINUTELY)
        /\ ~matcher.rt.second.all
        /\ moment >= 0 =>
              matched =
                CASE on_calendar = MINUTELY -> Asked.second = 0
                  [] on_calendar = HOURLY -> Asked.minute = 0 /\ Asked.second = 0
                  [] on_calendar = DAILY -> Midnight(Asked)
                  [] on_calendar = WEEKLY ->
                        Asked.weekday = "Monday" /\ Midnight(Asked)
                  [] on_calendar = MONTHLY -> Asked.day = 1 /\ Midnight(Asked)
                  [] on_calendar = QUARTERLY ->
                        Asked.month \in {1, 4, 7, 10} /\ Asked.day = 1 /\ Midnight(Asked)
                  [] on_calendar = SEMIANUALLY ->
                        Asked.month \in {1, 7} /\ Asked.day = 1 /\ Midnight(Asked)
                  [] on_calendar = YEARLY ->
                        Asked.month = 1 /\ Asked.day = 1 /\ Midnight(Asked)

\* the weekly calendar has run on a Monday that is not the first of a month
C29_Witness ==
    /\ on_calendar = WEEKLY
    /\ matched
    /\ Asked.weekday = "Monday"
    /\ Asked.day # 1

\* C30: a matcher matches a moment exactly when its seven fields (day of
\* week, year, month, day, hour, minute, second) all match it: the parse of
\* "*-*-* *:*:*" matches every moment, and the parse of
\* "Mon..Fri *-*-* 09:00:00" matches exactly the moments that fall on
\* Monday to Friday at 09:00:00
C30_AllSevenFieldsMatch ==
    moment >= 0 =>
        /\ matched =
              /\ dow_matches(matcher.rt.day_of_week, Asked.weekday)
              /\ year_matches(matcher.rt.year, Asked.year)
              /\ matches(matcher.rt.month, Asked.month)
              /\ matches(matcher.rt.day, Asked.day)
              /\ matches(matcher.rt.hour, Asked.hour)
              /\ matches(matcher.rt.minute, Asked.minute)
              /\ matches(matcher.rt.second, Asked.second)
        /\ on_calendar = "*-*-* *:*:*" => matched
        /\ on_calendar = "Mon..Fri *-*-* 09:00:00" =>
              matched =
                /\ Asked.weekday \in {"Monday", "Tuesday", "Wednesday", "Thursday", "Friday"}
                /\ Asked.hour = 9
                /\ Asked.minute = 0
                /\ Asked.second = 0

\* the working-days calendar has run on a Friday at 09:00:00
C30_Witness ==
    /\ on_calendar = "Mon..Fri *-*-* 09:00:00"
    /\ matched
    /\ Asked.weekday = "Friday"
    /\ Asked.hour = 9

(***************************************************************************)
(* The fields of a calendar.                                               *)
(***************************************************************************)
\* the month and the day count from 1
OneBased(f) == f \in {"month", "day"}

\* the bound the field is parsed with: 12 months, 31 days, 24 hours, 60
\* minutes, 60 seconds
BoundOf(f) ==
    CASE f = "month" -> MONTHS_PER_YEAR
      [] f = "day" -> DAYS_PER_MONTH
      [] f = "hour" -> HOURS_PER_DAY
      [] f = "minute" -> MINUTES_PER_HOUR
      [] f = "second" -> SECONDS_PER_MINUTE

\* the values a field can take
ValuesOf(f) == IF OneBased(f) THEN 1..BoundOf(f) ELSE 0..(BoundOf(f) - 1)

\* the values a parsed field holds
Held(result) == {result.v.of[k] : k \in 1..Len(result.v.of)}

\* the field has been parsed from one item
OneItem == the_field # "day_of_week" /\ Len(the_items) = 1 /\ parsed_field # Unparsed

\* C31: a range a..b of a numeric field, with or without a step of one or
\* more, fails with InvalidRange when b < a, is accepted exactly when a and
\* b are values of the field with a <= b, and then gives the values from a
\* to b (every step-th of them with a step)
C31_RangeAccepted ==
    (OneItem /\ the_items[1].second # Absent /\ the_items[1].rep # 0) =>
        LET a == the_items[1].first
            b == the_items[1].second
            n == IF the_items[1].rep = Absent THEN 1 ELSE the_items[1].rep
        IN /\ b < a => parsed_field.err = "InvalidRange"
           /\ parsed_field.ok <=> (a <= b /\ a \in ValuesOf(the_field) /\ b \in ValuesOf(the_field))
           /\ parsed_field.ok =>
                 /\ ~parsed_field.v.all
                 /\ Held(parsed_field) = {x \in a..b : (x - a) % n = 0}

\* the values of a parsed field ascend
Ascending(result) ==
    \A k \in 1..(Len(result.v.of) - 1) : result.v.of[k] < result.v.of[k + 1]

\* the values a + k * n from a to upto
Every(n, a, upto) == {x \in a..upto : \E k \in 0..upto : x = a + k * n}

\* an item parsed by itself as an item of the field f
Alone(f, item) == parse_rep_range_val(number_text(item), BoundOf(f), OneBased(f))

\* C35: a stepped value a/n gives the values a + k * n below the bound of
\* the field, a stepped range a..b/n that is no invalid range the values
\* a + k * n up to b, and a list the ascending union, without duplicates,
\* of what its items give
C35_SteppedValues ==
    /\ (OneItem /\ the_items[1].rep # Absent) =>
          LET a == the_items[1].first
              b == the_items[1].second
              n == the_items[1].rep
          IN IF b = Absent
             THEN /\ parsed_field.ok
                  /\ Held(parsed_field) = Every(n, a, BoundOf(the_field) - 1)
                  /\ Ascending(parsed_field)
             ELSE parsed_field.err # "InvalidRange" =>
                     /\ parsed_field.ok
                     /\ Held(parsed_field) = Every(n, a, b)
                     /\ Ascending(parsed_field)
    /\ (the_field # "day_of_week" /\ Len(the_items) > 1 /\ parsed_field.ok) =>
          /\ Held(parsed_field) =
                UNION {Held(time_chunk_of(Alone(the_field, the_items[i]))) :
                          i \in 1..Len(the_items)}
          /\ Ascending(parsed_field)

\* what is wrong with an item of the day of the week, "" when nothing is
Fault(item) ==
    IF \/ Spellings[item.first].day = -1
       \/ (item.second # Absent /\ Spellings[item.second].day = -1)
    THEN "invalid day of week"
    ELSE IF item.second # Absent /\ Spellings[item.second].day < Spellings[item.first].day
         THEN "InvalidRange"
         ELSE ""

\* the days an item of the day of the week names
Named(item) ==
    IF item.second = Absent
    THEN {Spellings[item.first].day}
    ELSE Spellings[item.first].day .. Spellings[item.second].day

\* C34: parse_day_of_week gives All for "*"; else it fails as its first item
\* with an unknown name or a range against the order does, and without such
\* an item it gives the days its items name, Sunday being 0, ascending and
\* without duplicates
C34_DayOfWeekParsed ==
    (the_field = "day_of_week" /\ parsed_field # Unparsed) =>
        IF the_items = <<>>
        THEN parsed_field = Ok(All)
        ELSE IF \E i \in 1..Len(the_items) : Fault(the_items[i]) # ""
             THEN /\ ~parsed_field.ok
                  /\ \E i \in 1..Len(the_items) :
                        /\ parsed_field.err = Fault(the_items[i])
                        /\ Fault(the_items[i]) # ""
                        /\ \A j \in 1..(i - 1) : Fault(the_items[j]) = ""
             ELSE /\ parsed_field.ok
                  /\ ~parsed_field.v.all
                  /\ Held(parsed_field) = UNION {Named(the_items[i]) : i \in 1..Len(the_items)}
                  /\ Ascending(parsed_field)

\* "Mon..Thu,TuEsDaY" has been parsed to Monday, Tuesday, Wednesday, Thursday
C34_Witness ==
    /\ the_field = "day_of_week"
    /\ Len(the_items) = 2
    /\ the_items[1].second # Absent
    /\ the_items[2] = Item(9, Absent, Absent)
    /\ parsed_field.ok
    /\ parsed_field.v.of = <<1, 2, 3, 4>>

\* the fields a calendar has "R" for
RandomFields(calendar) ==
    CASE calendar = "R:R:R" -> {"hour", "minute", "second"}
      [] calendar = "*-R-R R:R:R" -> {"month", "day", "hour", "minute", "second"}

YearCalendars == {"1970-*-* *:*:*", "1971-*-* *:*:*", "1970..1971-*-* *:*:*",
                  "1971..1971-*-* *:*:*"}

FirstYear(calendar) == IF calendar = "1970-*-* *:*:*" \/ calendar = "1970..1971-*-* *:*:*"
                       THEN 1970 ELSE 1971

LastYear(calendar) == IF calendar = "1970-*-* *:*:*" THEN 1970 ELSE 1971

\* C40: a year part a..b of four-digit years with a <= b matches the years
\* from a to b and no other, a plain year that year and no other, and "*"
\* every year
C40_YearRangeMatches ==
    /\ (on_calendar \in YearCalendars /\ matcher.err # "unparsed") => matcher.ok
    /\ (on_calendar \in YearCalendars /\ moment # -1) =>
          (matched <=> /\ FirstYear(on_calendar) <= date_time(moment).year
                       /\ date_time(moment).year <= LastYear(on_calendar))
    /\ (on_calendar = "*-*-* *:*:*" /\ moment # -1) => matched

(***************************************************************************)
(* The counts of the router (SpecRegistry).                                *)
(***************************************************************************)
\* C36: worker_count is the number of entries of workers and manager_count
\* the number of entries of managers, and neither is below zero, whatever
\* Connects and Disconnects the router has handled, a Disconnect for an id
\* that is registered no longer or never was among them
C36_CountsMatchRegistries ==
    /\ worker_count = Cardinality(DOMAIN workers)
    /\ manager_count = Cardinality(DOMAIN managers)
    /\ worker_count >= 0
    /\ manager_count >= 0

\* a Disconnect for an id that was never handed out has been handled while
\* a worker is registered
C36_Witness ==
    /\ last.msg.type = "WorkerDisconnect"
    /\ last.msg.id = 0
    /\ last.calls = <<>>
    /\ worker_count = 1
    /\ DOMAIN workers # {}

(***************************************************************************)
(* The drainer of the output queue (SpecQueue).                            *)
(***************************************************************************)
\* C37: queue_running is true exactly when stdout_handle holds a handle,
\* and exactly then a drainer is active; the supervisor starts a drainer
\* only when none is active, so that there is never more than one, whatever
\* ticks, enqueues, drains and Reloads there have been
C37_OneDrainer ==
    /\ [](queue_running <=> stdout_handle = "Some")
    /\ [](queue_running <=> drainer)
    /\ [][(tick' # tick /\ tick'.did = "start") => ~drainer]_vars

\* a drainer is active under a supervisor that a Reload has started anew
\* since the supervisor last ran
C37_Witness ==
    /\ drainer
    /\ queue_running
    /\ stdout_handle = "Some"
    /\ tick.did = "start"
    /\ monitor_due # tick.at + QUEUE_MONITOR_INTERVAL

(***************************************************************************)
(* Properties of one executor thread (SpecThread).                         *)
(***************************************************************************)
\* the names of the calls of run_cmd, in the order of the calls
Called == [i \in 1..Len(children) |-> children[i].name]

\* the names of the list the for loop has come to so far
Reached == SubSeq(cmds_thread, 1, IF thread = "for" THEN cmd_at - 1 ELSE cmd_at)

InTable(n) == n \in {"ls", "df"}

HasChild(c) == c.child # "none"

\* the names of the children spawned, in the order they were
Started == [i \in 1..Len(SelectSeq(children, HasChild)) |-> SelectSeq(children, HasChild)[i].name]

\* C33 as stated: the children started within one firing are those of the
\* names of the list that the command table holds, in the order of the
\* list and one at a time
C33_ChildPerName ==
    /\ Started = SelectSeq(Reached, InTable)
    /\ \A i \in 1..(Len(children) - 1) : children[i].child # "running"

\* C33: within one firing run_cmd is called for the names of the list the
\* command table holds, in the order of the list and one at a time; a call
\* starts a child unless the shell is not set or the spawn fails; no child
\* is started while an earlier one still runs, and a name the table does
\* not hold, like a call that started no child, is passed over, the later
\* names still being run
C33_ListInOrder ==
    /\ Called = SelectSeq(Reached, InTable)
    /\ \A i \in 1..(Len(children) - 1) : children[i].child # "running"
    /\ thread # "for" => (children # <<>> /\ children[Len(children)].child # "none")

\* the thread is through "ls", "gone", "df": the spawn of "ls" failed, the
\* child of "df" has exited
C33_Witness ==
    /\ cmds_thread = <<"ls", "gone", "df">>
    /\ cmd_at > Len(cmds_thread)
    /\ children = <<[name |-> "ls", child |-> "none"], [name |-> "df", child |-> "exited"]>>

\* C38: once the worker has handled Reload, a thread started before it
\* spawns no further child, whether the flag is still false or true again;
\* so a thread whose child was killed for the flag spawns none after it
C38_NoChildAfterReload ==
    /\ reloaded # -1 => Spawned_children(children) = reloaded
    /\ \A i \in 1..Len(children) : \A j \in (i + 1)..Len(children) :
            children[i].child = "killed" => children[j].child = "none"

(***************************************************************************)
(* Properties of a job and the session of its worker (SpecSession).        *)
(***************************************************************************)
\* C39: the job whose process has ended, by itself with or without an exit
\* code or killed after a Reload, and whose frames the session has all
\* handled, has its document in the archive and no entry in the jobs map
C39_EndedJobArchived ==
    (Terminated /\ Len(seen) = Len(stdout_queue)) =>
        /\ \E i \in 1..Len(archive) : archive[i].document.job_id = command_id
        /\ command_id \notin DOMAIN jobs
====
